---- MODULE Spec2Model ----
(***************************************************************************)
(* Model of the unified-search backend (src/backend/app): the transcript   *)
(* chunker, the in-memory repository with its hybrid search, and the       *)
(* ingest worker.                                                          *)
(*                                                                         *)
(* A Python str is a sequence of one-character strings.  Optional[X] is a  *)
(* sequence of length 0 (None) or 1 (the value).  A float score is an      *)
(* integer number of 1/25ths: embedding vectors are unit vectors with      *)
(* components in fifths, so every dot product is a whole number of 25ths.  *)
(***************************************************************************)
EXTENDS Integers, Sequences, FiniteSets, TLC

VARIABLES
    \* chunk_segments: its arguments, and the locals of its loop
    segments, target_chars, overlap_chars, pos, buffer, buffer_len, idx, out, flushes,
    \* InMemoryRepository
    documents, chunks, embeddings, chunks_by_doc, acls,
    \* the last call made on the repository and what it returned
    ret, njobs,
    \* main.py: the ingest queue with the items ever enqueued and the items
    \* dequeue has returned, and the background tasks not yet run
    queue, enqueued, dequeued, tasks

chunkVars == <<segments, target_chars, overlap_chars, pos, buffer, buffer_len, idx, out, flushes>>
repoVars == <<documents, chunks, embeddings, chunks_by_doc, acls>>
webVars == <<queue, enqueued, dequeued, tasks>>
vars == <<chunkVars, repoVars, ret, njobs, webVars>>

----------------------------------------------------------------------------
\* Python values

None == <<>>
Some(x) == <<x>>
IsNone(o) == Len(o) = 0
Val(o) == o[1]

Min(S) == CHOOSE x \in S : \A y \in S : x <= y
Max(S) == CHOOSE x \in S : \A y \in S : x >= y

\* The elements of a set of integers, ascending.
SortedSeq(S) ==
    [k \in 1..Cardinality(S) |-> CHOOSE x \in S : Cardinality({y \in S : y < x}) = k - 1]

Space == " "
\* A lone surrogate code point: a character str.encode("utf-8") cannot encode.
Surrogate == "?"

IsSpace(c) == c = Space

LowerChar(c) ==
    CASE c = "A" -> "a"
      [] c = "B" -> "b"
      [] c = "R" -> "r"
      [] OTHER -> c

\* str.lower()
Lower(s) == [i \in 1..Len(s) |-> LowerChar(s[i])]

\* str.strip()
Strip(s) ==
    LET nb == {i \in 1..Len(s) : ~IsSpace(s[i])}
    IN  IF nb = {} THEN <<>> ELSE SubSeq(s, Min(nb), Max(nb))

\* str.split(): the maximal runs of non-whitespace characters, in order.
Split(s) ==
    LET n == Len(s)
        starts == {i \in 1..n : ~IsSpace(s[i]) /\ (i = 1 \/ IsSpace(s[i - 1]))}
        EndOf(i) == Min({j \in i..n : ~IsSpace(s[j]) /\ (j = n \/ IsSpace(s[j + 1]))})
        st == SortedSeq(starts)
    IN  [k \in 1..Len(st) |-> SubSeq(s, st[k], EndOf(st[k]))]

MatchAt(text, tok, i) ==
    /\ i + Len(tok) - 1 <= Len(text)
    /\ \A k \in 1..Len(tok) : text[i + k - 1] = tok[k]

RECURSIVE CountFrom(_, _, _)
CountFrom(text, tok, i) ==
    IF i + Len(tok) - 1 > Len(text) THEN 0
    ELSE IF MatchAt(text, tok, i) THEN 1 + CountFrom(text, tok, i + Len(tok))
    ELSE CountFrom(text, tok, i + 1)

\* str.count(tok): the non-overlapping occurrences, scanning from the left.
Count(text, tok) ==
    IF Len(tok) = 0 THEN Len(text) + 1 ELSE CountFrom(text, tok, 1)

\* s[-n:] for n > 0
LastChars(s, n) == IF n >= Len(s) THEN s ELSE SubSeq(s, Len(s) - n + 1, Len(s))

RECURSIVE JoinSpace(_)
\* " ".join(pieces)
JoinSpace(pieces) ==
    IF Len(pieces) = 0 THEN <<>>
    ELSE IF Len(pieces) = 1 THEN pieces[1]
    ELSE pieces[1] \o <<Space>> \o JoinSpace(SubSeq(pieces, 2, Len(pieces)))

RECURSIVE SumSeq(_)
SumSeq(s) == IF Len(s) = 0 THEN 0 ELSE s[1] + SumSeq(SubSeq(s, 2, Len(s)))

----------------------------------------------------------------------------
\* chunker.py

\* TranscriptSegment
Segment(start_ms, end_ms, speaker, text) ==
    [start_ms |-> start_ms, end_ms |-> end_ms, speaker |-> speaker, text |-> text]

\* _flush(buffer, document_id, idx)
Flush(buf, document_id, i) ==
    LET text == JoinSpace([k \in 1..Len(buf) |-> Strip(buf[k].text)])
        words == Len(Split(text))
    IN  [id |-> <<document_id, i>>,
         document_id |-> document_id,
         idx |-> i,
         speaker |-> buf[1].speaker,
         start_ms |-> buf[1].start_ms,
         end_ms |-> buf[Len(buf)].end_ms,
         text |-> text,
         token_count |-> IF words > 1 THEN words ELSE 1]

\* The locals with idx kept from the call before, like a module-level counter.
ChunkerStart_keeping_idx == [chunks |-> <<>>, buffer |-> <<>>, buffer_len |-> 0, idx |-> idx]

\* The locals of chunk_segments before its loop.
ChunkerStart == [chunks |-> <<>>, buffer |-> <<>>, buffer_len |-> 0, idx |-> 0]

\* Line 25 without seg_len: the chunk closes only once it is over the target.
Closes_without_seg_len(st, seg, T) == st.buffer_len > T /\ Len(st.buffer) > 0

\* Line 25 with >= for >: the chunk closes as soon as the target is reached.
Closes_at_target(st, seg, T) == st.buffer_len + Len(seg.text) >= T /\ Len(st.buffer) > 0

\* Whether the loop body closes the current chunk before taking seg (line 25).
Closes(st, seg, T) == st.buffer_len + Len(seg.text) > T /\ Len(st.buffer) > 0

\* Lines 29-43 with tail = buffer[0]: the overlap is taken from the first
\* piece of the closed chunk.
Reseed_from_first(buf, O) ==
    IF O # 0 /\ Len(buf) > 0
    THEN LET tail == buf[1]
         IN  <<Segment(tail.start_ms, tail.end_ms, tail.speaker, LastChars(tail.text, O))>>
    ELSE <<>>

\* The buffer a closed chunk leaves behind (lines 29-43).
Reseed(buf, O) ==
    IF O # 0 /\ Len(buf) > 0
    THEN LET tail == buf[Len(buf)]
         IN  <<Segment(tail.start_ms, tail.end_ms, tail.speaker, LastChars(tail.text, O))>>
    ELSE <<>>

\* The loop body without the test of lines 22-23: a blank segment is taken
\* like any other.
LoopBody_keeping_blank(st, seg, document_id, T, O) ==
    LET closed == Closes(st, seg, T)
        seed == IF closed THEN Reseed(st.buffer, O) ELSE st.buffer
        seedLen == IF closed
                   THEN (IF Len(seed) > 0 THEN Len(seed[1].text) ELSE 0)
                   ELSE st.buffer_len
    IN  [chunks |-> IF closed
                    THEN Append(st.chunks, Flush(st.buffer, document_id, st.idx))
                    ELSE st.chunks,
         idx |-> IF closed THEN st.idx + 1 ELSE st.idx,
         buffer |-> Append(seed, seg),
         buffer_len |-> seedLen + Len(seg.text)]

\* One iteration of the loop of chunk_segments (lines 21-45).
LoopBody(st, seg, document_id, T, O) ==
    IF Len(Strip(seg.text)) = 0 THEN st
    ELSE LET closed == Closes(st, seg, T)
             seed == IF closed THEN Reseed(st.buffer, O) ELSE st.buffer
             seedLen == IF closed
                        THEN (IF Len(seed) > 0 THEN Len(seed[1].text) ELSE 0)
                        ELSE st.buffer_len
         IN  [chunks |-> IF closed
                         THEN Append(st.chunks, Flush(st.buffer, document_id, st.idx))
                         ELSE st.chunks,
              idx |-> IF closed THEN st.idx + 1 ELSE st.idx,
              buffer |-> Append(seed, seg),
              buffer_len |-> seedLen + Len(seg.text)]

\* chunk_segments returning without lines 47-48: the open buffer is dropped.
Finish_without_flush(st, document_id) == st

\* After the loop (lines 47-49).
Finish(st, document_id) ==
    IF Len(st.buffer) > 0
    THEN [st EXCEPT !.chunks = Append(st.chunks, Flush(st.buffer, document_id, st.idx))]
    ELSE st

RECURSIVE RunLoop(_, _, _, _, _, _)
RunLoop(st, segs, k, document_id, T, O) ==
    IF k > Len(segs) THEN st
    ELSE RunLoop(LoopBody(st, segs[k], document_id, T, O), segs, k + 1, document_id, T, O)

\* chunk_segments(segments, document_id, target_chars, overlap_chars)
chunk_segments(segs, document_id, T, O) ==
    Finish(RunLoop(ChunkerStart, segs, 1, document_id, T, O), document_id).chunks

----------------------------------------------------------------------------
\* Inputs of the chunker's specification

MaxSegs == 3
MaxTarget == 4
MaxOverlap == 2

SegTexts ==
    { <<"a">>, <<"a", "b">>, <<"b", " ">>, <<" ">>, <<"a", " ", "b", "a">> }

\* The transcript whose k-th segment has the k-th text: segments follow one
\* another in time and the speakers alternate (worker.py, _parse_transcript).
SegmentsOf(texts) ==
    [k \in 1..Len(texts) |->
        Segment(k - 1, k, IF k % 2 = 1 THEN "client" ELSE "pm", texts[k])]

SegLists == UNION {[1..n -> SegTexts] : n \in 0..MaxSegs}

DocId(call_id) == <<"fathom", call_id>>

ChunkDoc == DocId("c1")

----------------------------------------------------------------------------
\* embedding.py

\* embed_text raises UnicodeEncodeError at text.encode("utf-8") (line 11) when
\* the text holds a character UTF-8 cannot encode.
EmbedRaises(text) == \E i \in 1..Len(text) : text[i] = Surrogate

CharCode(c) ==
    CASE c = "a" -> 3
      [] c = "b" -> 1
      [] c = "A" -> 2
      [] c = "B" -> 5
      [] c = Space -> 4
      [] OTHER -> 6

\* Stands for hashlib.sha256(text).digest(): a fixed function of the characters
\* and their positions, many texts to one digest.
Digest(text) == SumSeq([i \in 1..Len(text) |-> CharCode(text[i]) * i])

\* The hexadecimal digits of a digest, most significant first (hexdigest()).
HexLen == 3
RECURSIVE HexDigits(_, _)
HexDigits(d, n) == IF n = 0 THEN <<>> ELSE Append(HexDigits(d \div 16, n - 1), d % 16)

hexdigest(text) == HexDigits(Digest(text), HexLen)

\* chroma_store.py, generate_chunk_id: the leading digits of the digest of
\* "source_type:source_id:content" (16 of 64 there).
IdHexLen == 2
generate_chunk_id(source_type, source_id, content) ==
    SubSeq(hexdigest(source_type \o <<":">> \o source_id \o <<":">> \o content), 1, IdHexLen)

SourceType == <<"f">>
SourceId == <<"c", "1">>

\* The L2-normalised vectors embed_text can return, components in fifths.
UnitVectors ==
    << <<5, 0>>, <<4, 3>>, <<0, 5>>, <<-3, 4>>, <<-5, 0>>, <<-4, -3>>, <<0, -5>>, <<3, -4>> >>

\* embed_text(text): the digest spread over the dimensions and normalised.
embed_text(text) == UnitVectors[(Digest(text) % Len(UnitVectors)) + 1]

\* dot(a, b), in 25ths
dot(a, b) == SumSeq([i \in 1..(IF Len(a) < Len(b) THEN Len(a) ELSE Len(b)) |-> a[i] * b[i]])

\* float(n) for an integer n, in 25ths
Float(n) == n * 25

----------------------------------------------------------------------------
\* repositories.py: InMemoryRepository

Repo == [documents |-> documents, chunks |-> chunks, embeddings |-> embeddings,
         chunks_by_doc |-> chunks_by_doc, acls |-> acls]

\* d[k] = v on a dict (a function)
Put(d, k, v) == (k :> v) @@ d

\* self.chunks[chunk.id] = chunk on the insertion-ordered dict of chunks: a
\* key already present keeps its place.
PutChunk(cs, c) ==
    IF \E i \in 1..Len(cs) : cs[i].id = c.id
    THEN [i \in 1..Len(cs) |-> IF cs[i].id = c.id THEN c ELSE cs[i]]
    ELSE Append(cs, c)

InSeq(x, s) == \E i \in 1..Len(s) : s[i] = x

upsert_document(repo, doc, allowed_emails) ==
    [repo EXCEPT !.documents = Put(repo.documents, doc.id, doc),
                 !.acls = IF IsNone(allowed_emails) THEN repo.acls
                          ELSE Put(repo.acls, doc.id, Val(allowed_emails))]

\* upsert_chunks without the test of line 34: the id is appended every time.
UpsertChunk_always_appending(repo, c) ==
    LET known == IF c.document_id \in DOMAIN repo.chunks_by_doc
                 THEN repo.chunks_by_doc[c.document_id] ELSE <<>>
    IN  [repo EXCEPT !.chunks = PutChunk(repo.chunks, c),
                     !.chunks_by_doc = Put(repo.chunks_by_doc, c.document_id,
                                           Append(known, c.id))]

UpsertChunk(repo, c) ==
    LET known == IF c.document_id \in DOMAIN repo.chunks_by_doc
                 THEN repo.chunks_by_doc[c.document_id] ELSE <<>>
    IN  [repo EXCEPT !.chunks = PutChunk(repo.chunks, c),
                     !.chunks_by_doc =
                         Put(repo.chunks_by_doc, c.document_id,
                             IF InSeq(c.id, known) THEN known ELSE Append(known, c.id))]

RECURSIVE upsert_chunks(_, _)
upsert_chunks(repo, cs) ==
    IF Len(cs) = 0 THEN repo
    ELSE upsert_chunks(UpsertChunk(repo, cs[1]), SubSeq(cs, 2, Len(cs)))

RECURSIVE upsert_embeddings(_, _)
upsert_embeddings(repo, embeds) ==
    IF Len(embeds) = 0 THEN repo
    ELSE upsert_embeddings(
             [repo EXCEPT !.embeddings = Put(repo.embeddings, embeds[1].id, embeds[1])],
             SubSeq(embeds, 2, Len(embeds)))

\* f"{chunk.id}:emb"
EmbId(chunk_id) == <<chunk_id, "emb">>

EmbeddingRecord(chunk_id, vector) ==
    [id |-> EmbId(chunk_id), chunk_id |-> chunk_id, model |-> "stub-embedding",
     vector |-> vector]

\* models.py, EmbeddingRecord(id, chunk_id, model, vector)
EmbeddingWith(id, chunk_id, model, vector) ==
    [id |-> id, chunk_id |-> chunk_id, model |-> model, vector |-> vector]

\* The model whose vectors embed_text returns, as process_job names it.
QueryModel == "stub-embedding"

\* Python's truth value of an Optional[str]: None and "" are false.
Truthy(o) == ~IsNone(o) /\ Len(Val(o)) > 0

\* _is_allowed denying a document that has no allow-list.
_is_allowed_default_deny(repo, document_id, email) ==
    IF document_id \notin DOMAIN repo.acls THEN FALSE
    ELSE LET allowed == repo.acls[document_id]
         IN  Lower(email) \in {Lower(allowed[i]) : i \in 1..Len(allowed)}

_is_allowed(repo, document_id, email) ==
    IF document_id \notin DOMAIN repo.acls THEN TRUE
    ELSE LET allowed == repo.acls[document_id]
         IN  Lower(email) \in {Lower(allowed[i]) : i \in 1..Len(allowed)}

\* The filter tests keeping a document that passes either filter.
PassesFilters_either(doc, filters) ==
    IF IsNone(filters) THEN TRUE
    ELSE LET f == Val(filters)
         IN  \/ ~(Truthy(f.source) /\ ~InSeq(doc.source, Val(f.source)))
             \/ ~(Truthy(f.project)
                  /\ ~(~IsNone(doc.project) /\ InSeq(Val(doc.project), Val(f.project))))

\* The filter tests of _iter_chunks (lines 118-122); a SearchFilters object is
\* true whatever it holds, an empty or absent list of values is false.
PassesFilters(doc, filters) ==
    IF IsNone(filters) THEN TRUE
    ELSE LET f == Val(filters)
         IN  /\ ~(Truthy(f.source) /\ ~InSeq(doc.source, Val(f.source)))
             /\ ~(Truthy(f.project)
                  /\ ~(~IsNone(doc.project) /\ InSeq(Val(doc.project), Val(f.project))))

IterKeeps(repo, chunk, filters, viewer_email) ==
    /\ chunk.document_id \in DOMAIN repo.documents
    /\ ~(Truthy(viewer_email) /\ ~_is_allowed(repo, chunk.document_id, Val(viewer_email)))
    /\ PassesFilters(repo.documents[chunk.document_id], filters)

_iter_chunks(repo, filters, viewer_email) ==
    SelectSeq(repo.chunks, LAMBDA c : IterKeeps(repo, c, filters, viewer_email))

\* A score table (a dict chunk id -> score, in insertion order) is a sequence
\* of [id, score].
Entry(id, score) == [id |-> id, score |-> score]

\* The tokens of line 85 without lower(): the query's case is kept.
QueryTokens_case_kept(query) == Split(query)

QueryTokens(query) == LET ts == Split(query) IN [i \in 1..Len(ts) |-> Lower(ts[i])]

LexicalScore(chunk, tokens) ==
    SumSeq([i \in 1..Len(tokens) |-> Count(Lower(chunk.text), tokens[i])])

_lexical_scores(repo, query, filters, viewer_email) ==
    LET tokens == QueryTokens(query)
        cand == _iter_chunks(repo, filters, viewer_email)
        hits == SelectSeq(cand, LAMBDA c : LexicalScore(c, tokens) # 0)
    IN  [i \in 1..Len(hits) |-> Entry(hits[i].id, Float(LexicalScore(hits[i], tokens)))]

VectorScore(repo, chunk, query_vec) ==
    IF EmbId(chunk.id) \notin DOMAIN repo.embeddings THEN 0
    ELSE dot(query_vec, repo.embeddings[EmbId(chunk.id)].vector)

\* _vector_scores enumerating the chunks without the viewer.
_vector_scores_without_viewer(repo, query, filters, viewer_email) ==
    LET query_vec == embed_text(query)
        cand == _iter_chunks(repo, filters, None)
        hits == SelectSeq(cand, LAMBDA c : /\ EmbId(c.id) \in DOMAIN repo.embeddings
                                           /\ VectorScore(repo, c, query_vec) > 0)
    IN  [i \in 1..Len(hits) |-> Entry(hits[i].id, VectorScore(repo, hits[i], query_vec))]

_vector_scores(repo, query, filters, viewer_email) ==
    LET query_vec == embed_text(query)
        cand == _iter_chunks(repo, filters, viewer_email)
        hits == SelectSeq(cand, LAMBDA c : /\ EmbId(c.id) \in DOMAIN repo.embeddings
                                           /\ VectorScore(repo, c, query_vec) > 0)
    IN  [i \in 1..Len(hits) |-> Entry(hits[i].id, VectorScore(repo, hits[i], query_vec))]

\* combined[chunk_id] = score: the later score replaces the earlier one.
AddScore_overwriting(combined, e) ==
    IF \E i \in 1..Len(combined) : combined[i].id = e.id
    THEN [i \in 1..Len(combined) |-> IF combined[i].id = e.id THEN e ELSE combined[i]]
    ELSE Append(combined, e)

\* combined[chunk_id] += score on the defaultdict(float): a new key goes last.
AddScore(combined, e) ==
    IF \E i \in 1..Len(combined) : combined[i].id = e.id
    THEN [i \in 1..Len(combined) |->
            IF combined[i].id = e.id
            THEN Entry(e.id, combined[i].score + e.score) ELSE combined[i]]
    ELSE Append(combined, e)

RECURSIVE AddScores(_, _)
AddScores(combined, table) ==
    IF Len(table) = 0 THEN combined
    ELSE AddScores(AddScore(combined, table[1]), SubSeq(table, 2, Len(table)))

\* The combined table of search (lines 51-55).
Combine(lexical_scores, vector_scores) ==
    AddScores(AddScores(<<>>, lexical_scores), vector_scores)

\* sorted(items, key=score) without reverse=True.
SortedByScoreAsc(items) ==
    LET n == Len(items)
        Place(i) == Cardinality({j \in 1..n : items[j].score < items[i].score})
                    + Cardinality({j \in 1..(i - 1) : items[j].score = items[i].score}) + 1
    IN  [k \in 1..n |-> items[CHOOSE i \in 1..n : Place(i) = k]]

\* sorted(items, key=score, reverse=True): stable, so equal scores keep the
\* order of items.
SortedByScoreDesc(items) ==
    LET n == Len(items)
        Place(i) == Cardinality({j \in 1..n : items[j].score > items[i].score})
                    + Cardinality({j \in 1..(i - 1) : items[j].score = items[i].score}) + 1
    IN  [k \in 1..n |-> items[CHOOSE i \in 1..n : Place(i) = k]]

\* s[:limit - 1]
SliceTo_one_short(s, limit) ==
    LET m == limit - 1
        n == IF m >= 0 THEN (IF m < Len(s) THEN m ELSE Len(s))
             ELSE (IF Len(s) + m > 0 THEN Len(s) + m ELSE 0)
    IN  SubSeq(s, 1, n)

\* s[:limit]
SliceTo(s, limit) ==
    LET n == IF limit >= 0 THEN (IF limit < Len(s) THEN limit ELSE Len(s))
             ELSE (IF Len(s) + limit > 0 THEN Len(s) + limit ELSE 0)
    IN  SubSeq(s, 1, n)

ChunkById(repo, id) == repo.chunks[CHOOSE i \in 1..Len(repo.chunks) : repo.chunks[i].id = id]

SearchResult(repo, e, rank) ==
    LET chunk == ChunkById(repo, e.id)
        doc == repo.documents[chunk.document_id]
    IN  [id |-> chunk.id, document_id |-> doc.id, source |-> doc.source,
         text |-> chunk.text, score |-> e.score, rank |-> rank,
         project |-> doc.project]

\* A search that looks up self.chunks_by_doc[doc.id] for every document: the
\* defaultdict gives a document without chunks an empty list.
AfterSearch_reading_chunks_by_doc(repo, query, filters, limit, viewer_email) ==
    [repo EXCEPT !.chunks_by_doc =
        [d \in DOMAIN repo.documents \cup DOMAIN repo.chunks_by_doc |->
            IF d \in DOMAIN repo.chunks_by_doc THEN repo.chunks_by_doc[d] ELSE <<>>]]

\* The repository search leaves behind: it reads self.chunks, self.documents,
\* self.embeddings and self.acls with items(), get() and lookups of keys that
\* are present (lines 60-61, 100, 112-113, 127), and writes only its locals.
AfterSearch(repo, query, filters, limit, viewer_email) == repo

\* InMemoryRepository.search, when embed_text(query) does not raise.
search(repo, query, filters, limit, viewer_email) ==
    LET combined == Combine(_lexical_scores(repo, query, filters, viewer_email),
                            _vector_scores(repo, query, filters, viewer_email))
        ranked == SliceTo(SortedByScoreDesc(combined), limit)
    IN  [k \in 1..Len(ranked) |-> SearchResult(repo, ranked[k], k)]

----------------------------------------------------------------------------
\* worker.py and main.py

\* The defaults of chunk_segments (500 and 50 characters), scaled to the
\* lengths of the model's texts.
DefaultTargetChars == 4
DefaultOverlapChars == 1

Rif == <<"r", "i", "f">>

\* main.py, project_resolver
project_resolver(tags) ==
    IF \E i \in 1..Len(tags) : Lower(tags[i]) = Rif THEN Some(Rif) ELSE None

\* main.py, acl_resolver: the participants' non-empty emails, or None
acl_resolver(emails) ==
    LET given == SelectSeq(emails, LAMBDA e : Len(e) > 0)
    IN  IF Len(given) = 0 THEN None ELSE Some(given)

Document(id, source, external_id, project) ==
    [id |-> id, source |-> source, external_id |-> external_id, project |-> project]

\* process_job storing the chunks without having stored the document.
StoreDocAndChunks_without_document(repo, call_id, texts, emails, tags) ==
    upsert_chunks(repo, chunk_segments(SegmentsOf(texts), DocId(call_id),
                                       DefaultTargetChars, DefaultOverlapChars))

\* process_job up to the embedding of the chunks (lines 41-61).
StoreDocAndChunks(repo, call_id, texts, emails, tags) ==
    LET doc == Document(DocId(call_id), "fathom", call_id, project_resolver(tags))
        cs == chunk_segments(SegmentsOf(texts), doc.id,
                             DefaultTargetChars, DefaultOverlapChars)
    IN  upsert_chunks(upsert_document(repo, doc, acl_resolver(emails)), cs)

JobChunks(call_id, texts) ==
    chunk_segments(SegmentsOf(texts), DocId(call_id), DefaultTargetChars, DefaultOverlapChars)

\* The list comprehension of lines 63-71 raises when embed_text raises on
\* some chunk; nothing after it runs then.
EmbeddingRaises(cs) == \E i \in 1..Len(cs) : EmbedRaises(cs[i].text)

\* The repository process_job leaves behind, whether it returns or raises.
process_job(repo, call_id, texts, emails, tags) ==
    LET cs == JobChunks(call_id, texts)
        stored == StoreDocAndChunks(repo, call_id, texts, emails, tags)
    IN  IF EmbeddingRaises(cs) THEN stored
        ELSE upsert_embeddings(stored,
                 [i \in 1..Len(cs) |-> EmbeddingRecord(cs[i].id, embed_text(cs[i].text))])

----------------------------------------------------------------------------
\* savas_kb/alerts/detector.py: AlertDetector
\*
\* A chunk's content is a sequence of lower-case words.  A keyword pattern is
\* a sequence of elements, each a set of alternative phrases (sequences of
\* words); an element after the first follows the one before it directly or,
\* where the regular expression has ".*", anywhere later.  A word form that an
\* expression admits through an optional letter or an open ending ("delayed?",
\* "concern" without a closing \b) is listed as an alternative.

\* models.py, SignalType: the values, in the order of the enumeration
RISK_BUDGET == <<"r","i","s","k","_","b","u","d","g","e","t">>
RISK_SCHEDULE == <<"r","i","s","k","_","s","c","h","e","d","u","l","e">>
RISK_SCOPE == <<"r","i","s","k","_","s","c","o","p","e">>
RISK_SENTIMENT == <<"r","i","s","k","_","s","e","n","t","i","m","e","n","t">>
OPPORTUNITY_ADDITIONAL_WORK ==
    <<"o","p","p","o","r","t","u","n","i","t","y","_","a","d","d","i","t","i","o","n","a","l","_","w","o","r","k">>
OPPORTUNITY_REFERRAL ==
    <<"o","p","p","o","r","t","u","n","i","t","y","_","r","e","f","e","r","r","a","l">>
OPPORTUNITY_EXPANSION ==
    <<"o","p","p","o","r","t","u","n","i","t","y","_","e","x","p","a","n","s","i","o","n">>

SignalType ==
    <<RISK_BUDGET, RISK_SCHEDULE, RISK_SCOPE, RISK_SENTIMENT,
      OPPORTUNITY_ADDITIONAL_WORK, OPPORTUNITY_REFERRAL, OPPORTUNITY_EXPANSION>>

\* One element of a pattern.
Elem(alts, gap) == [alts |-> alts, gap |-> gap]

\* A pattern that is one phrase, or one of several.
Phrase(alts) == <<Elem(alts, FALSE)>>

\* r"\bfirst\b.*\b(rest)"
Then(first, rest) == <<Elem(first, FALSE), Elem(rest, TRUE)>>

\* r"first (rest)": the second directly after the first
Next2(first, rest) == <<Elem(first, FALSE), Elem(rest, FALSE)>>

RISK_KEYWORDS ==
    << [signal_type |-> RISK_BUDGET, patterns |-> <<
            Then({<<"budget">>}, {<<"concern">>, <<"concerns">>, <<"issue">>, <<"problem">>,
                                  <<"tight">>, <<"over">>, <<"exceed">>}),
            Then({<<"cost">>}, {<<"concern">>, <<"concerns">>, <<"issue">>, <<"overrun">>,
                                <<"too", "high">>}),
            Phrase({<<"expensive">>}),
            Phrase({<<"can't", "afford">>}),
            Phrase({<<"out", "of", "budget">>}) >>],
       [signal_type |-> RISK_SCHEDULE, patterns |-> <<
            Then({<<"deadline">>}, {<<"miss">>, <<"slip">>, <<"delay">>, <<"delayed">>,
                                    <<"concern">>, <<"concerns">>}),
            Phrase({<<"behind", "schedule">>}),
            Phrase({<<"delay">>, <<"delayed">>}),
            Then({<<"timeline">>}, {<<"concern">>, <<"concerns">>, <<"issue">>, <<"slip">>}),
            Phrase({<<"won't", "make", "it">>}),
            Phrase({<<"pushed", "back">>}) >>],
       [signal_type |-> RISK_SCOPE, patterns |-> <<
            Then({<<"scope">>}, {<<"creep">>, <<"change">>, <<"expand">>, <<"grow">>}),
            Phrase({<<"additional", "requirements">>}),
            Phrase({<<"more", "than", "expected">>}),
            Phrase({<<"keep", "adding">>}),
            Phrase({<<"out", "of", "scope">>}) >>] >>

OPPORTUNITY_KEYWORDS ==
    << [signal_type |-> OPPORTUNITY_ADDITIONAL_WORK, patterns |-> <<
            Next2({<<"additional">>}, {<<"work">>, <<"project">>, <<"phase">>}),
            Phrase({<<"next", "phase">>}),
            Next2({<<"follow-up">>, <<"followup">>}, {<<"project">>, <<"work">>}),
            Phrase({<<"more", "work">>}),
            Then({<<"expand">>}, {<<"scope">>}),
            Phrase({<<"another", "project">>}) >>],
       [signal_type |-> OPPORTUNITY_REFERRAL, patterns |-> <<
            Then({<<"recommend">>}, {<<"you">>, <<"your", "team">>}),
            Phrase({<<"referral">>, <<"referred">>, <<"referal">>, <<"refered">>}),
            Next2({<<"know">>}, {<<"someone">>, <<"people">>, <<"others">>}),
            Then({<<"introduce">>}, {<<"to">>}) >>],
       [signal_type |-> OPPORTUNITY_EXPANSION, patterns |-> <<
            Next2({<<"other">>}, {<<"team">>, <<"teams">>, <<"department">>,
                                  <<"departments">>, <<"area">>, <<"areas">>}),
            Phrase({<<"company-wide">>, <<"companywide">>}),
            Then({<<"roll", "out">>}, {<<"broader">>, <<"wider">>}),
            Then({<<"expand">>}, {<<"to">>, <<"across">>}) >>] >>

\* Whether the phrase is in the content at word i.
PhraseAt(content, phrase, i) ==
    /\ i >= 1
    /\ i + Len(phrase) - 1 <= Len(content)
    /\ \A j \in 1..Len(phrase) : content[i + j - 1] = phrase[j]

\* Whether the elements of the pattern from the k-th on match the content from
\* word i on: at word i, or for an element after ".*" at word i or later.
RECURSIVE MatchFrom(_, _, _, _)
MatchFrom(content, pattern, k, i) ==
    IF k > Len(pattern) THEN TRUE
    ELSE \E alt \in pattern[k].alts :
            \E j \in (IF pattern[k].gap THEN i..Len(content) ELSE {i}) :
                /\ PhraseAt(content, alt, j)
                /\ MatchFrom(content, pattern, k + 1, j + Len(alt))

\* re.search(pattern, content, re.IGNORECASE)
re_search(pattern, content) == \E i \in 1..Len(content) : MatchFrom(content, pattern, 1, i)

\* The signal types of a keyword table with a matching pattern, in table order
\* (lines 124-128 and 131-135).
DetectIn(table, content) ==
    LET hit == SelectSeq(table, LAMBDA r :
                   \E p \in 1..Len(r.patterns) : re_search(r.patterns[p], content))
    IN  [k \in 1..Len(hit) |-> hit[k].signal_type]

_detect_keywords(content) ==
    DetectIn(RISK_KEYWORDS, content) \o DetectIn(OPPORTUNITY_KEYWORDS, content)

\* sub in s, for strings
In(sub, s) == \E i \in 1..(Len(s) + 1) : MatchAt(s, sub, i)

\* What the chat completion of _detect_with_llm does: it raises, or it answers
\* with a text in which "NONE" and the code of each type of codes occur.
LlmOutcome(raises, none, codes) == [raises |-> raises, none |-> none, codes |-> codes]

\* _detect_with_llm without its try: a failure of the completion leaves
\* detect_signals as an exception.
Uncaught_failure(llm) == llm.raises

\* Whether an exception of the classifier's completion leaves _detect_with_llm:
\* none does, the call and the parsing are inside try ... except Exception
\* (lines 166-189).
Uncaught(llm) == FALSE

\* _detect_with_llm: every exception of the call and of the parsing is caught
\* (lines 166-189).
_detect_with_llm(llm) ==
    IF llm.raises THEN <<>>
    ELSE IF llm.none THEN <<>>
    ELSE SelectSeq(SignalType, LAMBDA t : t \in llm.codes)

\* The first 200 characters of the content (line 200), scaled to words.
QuoteLen == 4

Ellipsis == "..."

Title(signal_type) ==
    CASE signal_type = RISK_BUDGET -> "Budget Concern Detected"
      [] signal_type = RISK_SCHEDULE -> "Schedule Risk Detected"
      [] signal_type = RISK_SCOPE -> "Scope Creep Detected"
      [] signal_type = RISK_SENTIMENT -> "Client Sentiment Concern"
      [] signal_type = OPPORTUNITY_ADDITIONAL_WORK -> "Additional Work Opportunity"
      [] signal_type = OPPORTUNITY_REFERRAL -> "Referral Opportunity"
      [] signal_type = OPPORTUNITY_EXPANSION -> "Expansion Opportunity"
      [] OTHER -> "Signal"

\* The severity _create_alert gives (lines 194-197); the tests are on
\* signal_type.value as it stands.
Severity(signal_type) ==
    IF In(<<"R", "I", "S", "K">>, signal_type)
    THEN (IF In(<<"B", "U", "D", "G", "E", "T">>, signal_type) THEN "high" ELSE "medium")
    ELSE "medium"

\* _generate_summary: the completion's text, or the head of the content when
\* the call raises.
_generate_summary(content, llm) ==
    IF llm.raises THEN SubSeq(content, 1, Min({QuoteLen, Len(content)}))
    ELSE <<"summary">>

\* _create_alert; the alert's id is a fresh uuid and is left out.
_create_alert(content, signal_type, use_llm, llm) ==
    LET head == SubSeq(content, 1, Min({QuoteLen, Len(content)}))
        quote == IF Len(content) > QuoteLen THEN Append(head, Ellipsis) ELSE head
    IN  [signal_type |-> signal_type,
         severity |-> Severity(signal_type),
         title |-> Title(signal_type),
         summary |-> IF use_llm THEN _generate_summary(content, llm) ELSE quote,
         quote |-> quote,
         source_chunk |-> content]

\* all_signals of detect_signals (lines 101-109)
all_signals(content, use_llm, llm) ==
    LET keyword_signals == _detect_keywords(content)
        llm_signals == IF use_llm THEN _detect_with_llm(llm) ELSE <<>>
        both == keyword_signals \o llm_signals
    IN  {both[k] : k \in 1..Len(both)}

\* The orders in which a for loop can go through a set.
Orderings(S) ==
    {s \in [1..Cardinality(S) -> S] : \A i, j \in 1..Cardinality(S) : s[i] = s[j] => i = j}

\* detect_signals going through keyword_signals + llm_signals as they are,
\* without set().
detect_signals_without_set(content, use_llm, llm, order) ==
    LET both == _detect_keywords(content)
                \o (IF use_llm THEN _detect_with_llm(llm) ELSE <<>>)
    IN  [k \in 1..Len(both) |-> _create_alert(content, both[k], use_llm, llm)]

\* detect_signals, the loop of lines 112-115 going through all_signals in the
\* given order.
detect_signals(content, use_llm, llm, order) ==
    [k \in 1..Len(order) |-> _create_alert(content, order[k], use_llm, llm)]


----------------------------------------------------------------------------
\* backend/app/alerts.py: AlertsService

\* self.rules, in the order of the dict (lines 12-52)
rules ==
    << [alert_type |-> "budget_risk", keywords |-> <<
            <<"b", "u", "d", "g", "e", "t">>,
            <<"o", "v", "e", "r", " ", "b", "u", "d", "g", "e", "t">>,
            <<"t", "o", "o", " ", "e", "x", "p", "e", "n", "s", "i", "v", "e">>,
            <<"c", "o", "s", "t", " ", "o", "v", "e", "r", "r", "u", "n">>,
            <<"s", "c", "o", "p", "e", " ", "c", "r", "e", "e", "p">>,
            <<"o", "u", "t", " ", "o", "f", " ", "s", "c", "o", "p", "e">>,
            <<"c", "h", "a", "n", "g", "e", " ", "o", "r", "d", "e", "r">>,
            <<"c", "a", "n", "n", "o", "t", " ", "a", "f", "f", "o", "r", "d">> >>],
       [alert_type |-> "schedule_risk", keywords |-> <<
            <<"s", "l", "i", "p", "p", "i", "n", "g">>,
            <<"b", "e", "h", "i", "n", "d", " ", "s", "c", "h", "e", "d", "u", "l", "e">>,
            <<"d", "e", "l", "a", "y">>,
            <<"d", "e", "a", "d", "l", "i", "n", "e">>,
            <<"b", "l", "o", "c", "k", "e", "d">>,
            <<"p", "u", "s", "h", "e", "d", " ", "b", "a", "c", "k">>,
            <<"n", "e", "e", "d", " ", "m", "o", "r", "e", " ", "t", "i", "m", "e">>,
            <<"n", "o", "t", " ", "r", "e", "a", "d", "y">> >>],
       [alert_type |-> "satisfaction_risk", keywords |-> <<
            <<"f", "r", "u", "s", "t", "r", "a", "t", "e", "d">>,
            <<"u", "n", "h", "a", "p", "p", "y">>,
            <<"c", "o", "n", "c", "e", "r", "n", "e", "d">>,
            <<"n", "o", "t", " ", "w", "o", "r", "k", "i", "n", "g">>,
            <<"q", "u", "a", "l", "i", "t", "y", " ", "i", "s", "s", "u", "e">>,
            <<"r", "e", "w", "o", "r", "k">> >>],
       [alert_type |-> "opportunity", keywords |-> <<
            <<"c", "a", "n", " ", "y", "o", "u", " ", "a", "l", "s", "o">>,
            <<"a", "d", "d", "i", "t", "i", "o", "n", "a", "l", " ", "w", "o", "r", "k">>,
            <<"p", "h", "a", "s", "e", " ", "t", "w", "o">>,
            <<"e", "x", "p", "a", "n", "s", "i", "o", "n">>,
            <<"m", "a", "i", "n", "t", "e", "n", "a", "n", "c", "e">>,
            <<"s", "u", "p", "p", "o", "r", "t", " ", "r", "e", "t", "a", "i", "n", "e", "r">>,
            <<"n", "e", "w", " ", "p", "r", "o", "j", "e", "c", "t">>,
            <<"i", "n", "t", "e", "g", "r", "a", "t", "i", "o", "n">>,
            <<"r", "e", "f", "e", "r", "r", "a", "l">> >>] >>

\* sum(text.count(k) for k in keywords) on the lower-cased text (lines 60-61)
KeywordScore(chunk, keywords) ==
    SumSeq([k \in 1..Len(keywords) |-> Count(Lower(chunk.text), keywords[k])])

\* score >= best_score: a later chunk with the same count replaces the
\* earlier one.
Better_or_equal(score, best_score) == score >= best_score

\* score > best_score (line 62)
Better(score, best_score) == score > best_score

\* The loop of lines 59-64 over the first n chunks: best_chunk (None or the
\* chunk) and best_score.
RECURSIVE BestOf(_, _, _)
BestOf(cs, keywords, n) ==
    IF n = 0 THEN [best_chunk |-> None, best_score |-> 0]
    ELSE LET before == BestOf(cs, keywords, n - 1)
             sc == KeywordScore(cs[n], keywords)
         IN  IF Better(sc, before.best_score)
             THEN [best_chunk |-> Some(cs[n]), best_score |-> sc]
             ELSE before

\* AlertsService.score on the chunks of a candidate: the alerts, in the order
\* of the rules; created_at, the time of the call, is left out.
score(call_id, cs) ==
    LET best == [r \in 1..Len(rules) |-> BestOf(cs, rules[r].keywords, Len(cs))]
        fired == SelectSeq([r \in 1..Len(rules) |-> r],
                           LAMBDA r : best[r].best_score > 0 /\ ~IsNone(best[r].best_chunk))
    IN  [k \in 1..Len(fired) |->
            LET b == best[fired[k]]
            IN  [alert_type |-> rules[fired[k]].alert_type,
                 call_id |-> call_id,
                 chunks |-> <<[text |-> Val(b.best_chunk).text,
                               speaker |-> Val(b.best_chunk).speaker,
                               start_ms |-> Val(b.best_chunk).start_ms]>>,
                 score |-> Float(b.best_score)]]


----------------------------------------------------------------------------
\* The state after main.py is imported: seed_demo_data has run on the empty
\* repository.

EmptyRepo == [documents |-> <<>>, chunks |-> <<>>, embeddings |-> <<>>,
              chunks_by_doc |-> <<>>, acls |-> <<>>]

SeedDoc == Document(<<"slack", "rif:1">>, "slack", "slack:rif:1", Some(Rif))

SeedText == <<"b", "a">>

SeedChunk ==
    [id |-> <<SeedDoc.id, 0>>, document_id |-> SeedDoc.id, idx |-> 0, speaker |-> "eng",
     start_ms |-> 0, end_ms |-> 0, text |-> SeedText, token_count |-> 14]

seed_demo_data ==
    upsert_embeddings(
        upsert_chunks(upsert_document(EmptyRepo, SeedDoc, None), <<SeedChunk>>),
        <<EmbeddingRecord(SeedChunk.id, embed_text(SeedChunk.text))>>)

NoCall ==
    [op |-> "none", status |-> "ok", query |-> <<>>, filters |-> None, limit |-> 0,
     viewer_email |-> None, results |-> <<>>, call_id |-> "", job_chunks |-> <<>>,
     texts |-> <<>>, emails |-> <<>>, tags |-> <<>>, unchanged |-> FALSE,
     content |-> <<>>, use_llm |-> FALSE, llm |-> LlmOutcome(FALSE, FALSE, {}),
     emb |-> EmbeddingWith(<<>>, <<>>, "", <<>>), before |-> <<>>,
     item |-> None, depth |-> 0, code |-> 0, body |-> <<>>, signature |-> None]

----------------------------------------------------------------------------
\* queue.py: InMemoryQueue, its deque a sequence with the left end first

\* self._queue.append(item)
enqueue(q, item) == Append(q, item)

\* dequeue taking the item enqueued last (pop() for popleft()).
dequeue_newest(q) ==
    IF Len(q) = 0 THEN [returned |-> None, _queue |-> q]
    ELSE [returned |-> Some(q[Len(q)]), _queue |-> SubSeq(q, 1, Len(q) - 1)]

\* dequeue: what it returns and the deque it leaves.
dequeue(q) ==
    IF Len(q) = 0 THEN [returned |-> None, _queue |-> q]
    ELSE [returned |-> Some(Head(q)), _queue |-> Tail(q)]

\* __len__
QueueLen(q) == Len(q)

----------------------------------------------------------------------------
\* security.py and the Fathom webhook of main.py

HexChars ==
    <<"0", "1", "2", "3", "4", "5", "6", "7", "8", "9", "a", "b", "c", "d", "e", "f">>

\* Stands for hmac.new(secret, body, sha256).hexdigest(): the digest of key
\* and message together, as a str of hexadecimal digits.
hmac_hexdigest(secret, body) ==
    [i \in 1..HexLen |-> HexChars[hexdigest(secret \o body)[i] + 1]]

\* Stands for a character above U+007F; a header value may hold one.
NonAscii == "~"

\* hmac.compare_digest on two str raises TypeError when either holds a
\* character that is not ASCII.
CompareRaises(a, b) ==
    \/ \E i \in 1..Len(a) : a[i] = NonAscii
    \/ \E i \in 1..Len(b) : b[i] = NonAscii

\* verify_hmac_signature(body, signature, secret), when compare_digest
\* returns
verify_hmac_signature(body, signature, secret) ==
    hmac_hexdigest(secret, body) = signature

\* settings.fathom_webhook_secret
FathomSecret == <<"s">>

\* The request bodies: each stands for one JSON document.  "a" and "b" are
\* valid payloads, "a" with an inline transcript and "b" without
\* transcript_url; "A" is a JSON object without the required fields, so that
\* model_validate raises; "B" is not JSON, so that json.loads raises.
Bodies == {<<"a">>, <<"b">>, <<"A">>, <<"B">>}

LoadsRaises(body) == body = <<"B">>

ValidateRaises(body) == body = <<"A">>

\* FathomWebhookPayload.model_validate(json.loads(raw_body.decode()))
PayloadOf(body) ==
    IF body = <<"a">>
    THEN [call_id |-> "c1", transcript_url |-> Some(<<<<"b", "b">>, <<"a", "a", "b">>>>),
          tags |-> <<Rif>>]
    ELSE [call_id |-> "c2", transcript_url |-> None, tags |-> <<>>]

\* The job dict of lines 104-111; transcript_url None stands for "".
JobOf(payload) ==
    [call_id |-> payload.call_id, transcript_url |-> payload.transcript_url,
     tags |-> payload.tags]

\* fathom_webhook(request, background_tasks): the status code of the response
\* and the job enqueued and scheduled, if any.  An exception of the handler
\* is answered with 500.
fathom_webhook(body, header) ==
    LET signature == IF IsNone(header) THEN <<>> ELSE Val(header)
    IN  IF CompareRaises(hmac_hexdigest(FathomSecret, body), signature)
        THEN [code |-> 500, job |-> None]
        ELSE IF ~verify_hmac_signature(body, signature, FathomSecret)
        THEN [code |-> 401, job |-> None]
        ELSE IF LoadsRaises(body) \/ ValidateRaises(body)
        THEN [code |-> 500, job |-> None]
        ELSE [code |-> 200, job |-> Some(JobOf(PayloadOf(body)))]

\* get("X-Fathom-Signature") or "" treats a missing and an empty header alike.
\* fetch_transcript raises on the URL "" (worker.py, lines 23-24).
FetchRaises(job) == IsNone(job.transcript_url)

\* run_ingest_job(job): the repository process_job leaves; an exception is
\* logged.
run_ingest_job(repo, job) ==
    IF FetchRaises(job) THEN repo
    ELSE process_job(repo, job.call_id, Val(job.transcript_url), <<>>, job.tags)

----------------------------------------------------------------------------
\* The state after main.py is imported, continued

\* queue = InMemoryQueue(settings.queue_name) (main.py, line 28), and no
\* background task added.
IdleWeb ==
    /\ queue = <<>>
    /\ enqueued = <<>>
    /\ dequeued = <<>>
    /\ tasks = <<>>

\* The repository of main.py (seeded at import) or a fresh InMemoryRepository().
InitRepo ==
    /\ \E r \in {seed_demo_data, EmptyRepo} :
          /\ documents = r.documents
          /\ chunks = r.chunks
          /\ embeddings = r.embeddings
          /\ chunks_by_doc = r.chunks_by_doc
          /\ acls = r.acls
    /\ ret = NoCall
    /\ njobs = 0
    /\ IdleWeb

\* chunk_segments has not been called.
IdleChunker ==
    /\ segments = <<>>
    /\ target_chars = DefaultTargetChars
    /\ overlap_chars = DefaultOverlapChars
    /\ pos = 1
    /\ buffer = <<>>
    /\ buffer_len = 0
    /\ idx = 0
    /\ out = <<>>
    /\ flushes = <<>>

----------------------------------------------------------------------------
\* Inputs of the repository's specification

MaxJobs == 2

Calls == {"c1", "c2"}

Transcripts ==
    { <<<<"b">>>>,
      <<<<"b", "b">>, <<"a", "a", "b">>>>,
      <<<<"b", "b">>, <<Surrogate, "b", "a">>>>,
      <<<<" ">>>> }

\* The participants' emails and the tags of a transcript
People ==
    { [emails |-> <<>>, tags |-> <<>>],
      [emails |-> <<<<"A">>>>, tags |-> <<<<"R", "i", "f">>>>],
      [emails |-> <<<<>>, <<"b">>>>, tags |-> <<>>] }

Queries == { <<"a">>, <<"B", " ", "a">>, <<" ">>, <<Surrogate>> }

Viewers == { None, Some(<<>>), Some(<<"a">>), Some(<<"B">>) }

FilterChoices ==
    { None,
      Some([source |-> Some(<<"fathom">>), project |-> None]),
      Some([source |-> None, project |-> Some(<<Rif>>)]),
      Some([source |-> Some(<<"slack", "fathom">>), project |-> Some(<<Rif>>)]),
      Some([source |-> Some(<<>>), project |-> None]) }

MaxLimit == 4

Limits == (-1)..MaxLimit

----------------------------------------------------------------------------
\* Actions of the repository's specification

SetRepo(repo) ==
    /\ documents' = repo.documents
    /\ chunks' = repo.chunks
    /\ embeddings' = repo.embeddings
    /\ chunks_by_doc' = repo.chunks_by_doc
    /\ acls' = repo.acls

\* main.py, run_ingest_job: process_job on the job, an exception logged.
RunIngestJob(call_id, texts, emails, tags) ==
    /\ ret.op = "none"
    /\ njobs < MaxJobs
    /\ njobs' = njobs + 1
    /\ SetRepo(process_job(Repo, call_id, texts, emails, tags))
    /\ ret' = [NoCall EXCEPT !.op = "process_job",
                             !.status = IF EmbeddingRaises(JobChunks(call_id, texts))
                                        THEN "raised" ELSE "ok",
                             !.call_id = call_id,
                             !.job_chunks = JobChunks(call_id, texts),
                             !.texts = texts, !.emails = emails, !.tags = tags,
                             !.unchanged =
                                 (process_job(Repo, call_id, texts, emails, tags) = Repo)]
    /\ UNCHANGED <<chunkVars, webVars>>

\* search.py, perform_search on a SearchRequest: InMemoryRepository.search,
\* whose _vector_scores raises when embed_text(query) does.
PerformSearch(query, filters, limit, viewer_email) ==
    /\ ret.op = "none"
    /\ ret' = [NoCall EXCEPT !.op = "search",
                             !.status = IF EmbedRaises(query) THEN "raised" ELSE "ok",
                             !.query = query, !.filters = filters, !.limit = limit,
                             !.viewer_email = viewer_email,
                             !.results = IF EmbedRaises(query) THEN <<>>
                                         ELSE search(Repo, query, filters, limit, viewer_email)]
    /\ SetRepo(AfterSearch(Repo, query, filters, limit, viewer_email))
    /\ UNCHANGED <<chunkVars, njobs, webVars>>

\* The caller takes what the last call returned; calls are served one at a
\* time.
Respond ==
    /\ ret.op # "none"
    /\ ret' = NoCall
    /\ UNCHANGED <<chunkVars, repoVars, njobs, webVars>>

\* The chunk contents given to the detector
Contents ==
    { <<>>,
      <<"the", "meeting", "went", "well">>,
      <<"budget", "concerns">>,
      <<"budget", "is", "tight", "and", "expensive">>,
      <<"behind", "schedule", "and", "delayed">>,
      <<"behind", "schedule", "budget", "concern", "expand", "company-wide", "to", "other", "teams">>,
      <<"expand", "scope">>,
      <<"scope", "creep", "out", "of", "scope">> }

\* What the classifier's completion can do
LlmOutcomes ==
    { LlmOutcome(TRUE, FALSE, {}),
      LlmOutcome(FALSE, TRUE, {}),
      LlmOutcome(FALSE, TRUE, {RISK_BUDGET}),
      LlmOutcome(FALSE, FALSE, {}),
      LlmOutcome(FALSE, FALSE, {RISK_SENTIMENT}),
      LlmOutcome(FALSE, FALSE, {RISK_BUDGET}),
      LlmOutcome(FALSE, FALSE, {RISK_BUDGET, OPPORTUNITY_REFERRAL}) }

\* AlertDetector(use_llm).detect_signals(chunk); without the classifier its
\* outcome plays no part.
DetectSignals(content, use_llm, llm) ==
    /\ ret.op = "none"
    /\ use_llm \/ llm = NoCall.llm
    /\ \E order \in Orderings(all_signals(content, use_llm, llm)) :
          ret' = [NoCall EXCEPT !.op = "detect_signals",
                                !.status = IF use_llm /\ Uncaught(llm) THEN "raised" ELSE "ok",
                                !.content = content, !.use_llm = use_llm, !.llm = llm,
                                !.results = IF use_llm /\ Uncaught(llm) THEN <<>>
                                            ELSE detect_signals(content, use_llm, llm, order)]
    /\ UNCHANGED <<chunkVars, repoVars, njobs, webVars>>

NextDetector ==
    \/ \E c \in Contents, u \in BOOLEAN, l \in LlmOutcomes : DetectSignals(c, u, l)
    \/ Respond

\* The texts of the chunks given to AlertsService.score
AlertTexts ==
    { <<"w", "e", " ", "m", "a", "y", " ", "g", "o", " ", "o", "v", "e", "r", " ", "b", "u", "d", "g", "e", "t", " ", "s", "o", "o", "n">>,
      <<"p", "h", "a", "s", "e", " ", "t", "w", "o", " ", "o", "p", "p", "o", "r", "t", "u", "n", "i", "t", "y", " ", "l", "a", "t", "e", "r">>,
      <<"B", "u", "d", "g", "e", "t", " ", "b", "u", "d", "g", "e", "t">>,
      <<"t", "h", "e", " ", "d", "e", "a", "d", "l", "i", "n", "e", " ", "i", "s", " ", "b", "l", "o", "c", "k", "e", "d">>,
      <<"a", "l", "l", " ", "f", "i", "n", "e">> }

MaxBatch == 3

\* The chunks of a candidate, one per text, as chunk_segments numbers them.
BatchOf(texts) ==
    [k \in 1..Len(texts) |->
        [id |-> <<ChunkDoc, k - 1>>, document_id |-> ChunkDoc, idx |-> k - 1,
         speaker |-> IF k % 2 = 1 THEN "client" ELSE "pm",
         start_ms |-> k - 1, end_ms |-> k, text |-> texts[k], token_count |-> 1]]

Batches == UNION {[1..n -> AlertTexts] : n \in 0..MaxBatch}

\* alerts.score(candidate), as process_job calls it (worker.py, line 82)
ScoreCandidate(texts) ==
    /\ ret.op = "none"
    /\ ret' = [NoCall EXCEPT !.op = "score",
                             !.call_id = "c1",
                             !.job_chunks = BatchOf(texts),
                             !.results = score("c1", BatchOf(texts))]
    /\ UNCHANGED <<chunkVars, repoVars, njobs, webVars>>

NextAlerts ==
    \/ \E t \in Batches : ScoreCandidate(t)
    \/ Respond


\* Direct calls of InMemoryRepository.upsert_embeddings: a stored chunk
\* embedded under some model, the record's id built as process_job builds it
\* or from the model's name.
Models == {QueryModel, "other-embedding"}

Vectors == {UnitVectors[1], UnitVectors[3]}

MaxStored == 4

\* repo.upsert_embeddings([emb]) for the i-th stored chunk; njobs counts the
\* writing calls.
UpsertEmbeddings(i, model, vector, named) ==
    /\ ret.op = "none"
    /\ njobs < MaxJobs
    /\ njobs' = njobs + 1
    /\ i <= Len(chunks)
    /\ LET c == chunks[i].id
           emb == EmbeddingWith(IF named THEN <<c, model>> ELSE EmbId(c), c, model, vector)
       IN  /\ SetRepo(upsert_embeddings(Repo, <<emb>>))
           /\ ret' = [NoCall EXCEPT !.op = "upsert_embeddings", !.emb = emb,
                                    !.before = embeddings]
    /\ UNCHANGED <<chunkVars, webVars>>

NextStore ==
    \/ \E c \in Calls, t \in Transcripts, p \in People :
            RunIngestJob(c, t, p.emails, p.tags)
    \/ \E i \in 1..MaxStored, m \in Models, v \in Vectors, named \in BOOLEAN :
            UpsertEmbeddings(i, m, v, named)
    \/ Respond

Init == InitRepo /\ IdleChunker

SpecDetector == Init /\ [][NextDetector]_vars

SpecAlerts == Init /\ [][NextAlerts]_vars

SpecStore == Init /\ [][NextStore]_vars

----------------------------------------------------------------------------
\* The queue's specification: enqueue and dequeue called in any order

MaxEnqueues == 3

Items == {"x", "y"}

\* queue.enqueue(item)
Enqueue(item) ==
    /\ ret.op = "none"
    /\ Len(enqueued) < MaxEnqueues
    /\ queue' = enqueue(queue, item)
    /\ enqueued' = Append(enqueued, item)
    /\ ret' = [NoCall EXCEPT !.op = "enqueue", !.item = Some(item),
                             !.depth = QueueLen(enqueue(queue, item))]
    /\ UNCHANGED <<chunkVars, repoVars, njobs, dequeued, tasks>>

\* queue.dequeue()
Dequeue ==
    /\ ret.op = "none"
    /\ queue' = dequeue(queue)._queue
    /\ dequeued' = IF IsNone(dequeue(queue).returned) THEN dequeued
                   ELSE Append(dequeued, Val(dequeue(queue).returned))
    /\ ret' = [NoCall EXCEPT !.op = "dequeue", !.item = dequeue(queue).returned,
                             !.depth = QueueLen(dequeue(queue)._queue)]
    /\ UNCHANGED <<chunkVars, repoVars, njobs, enqueued, tasks>>

NextQueue ==
    \/ \E item \in Items : Enqueue(item)
    \/ Dequeue
    \/ Respond

SpecQueue == Init /\ [][NextQueue]_vars

----------------------------------------------------------------------------
\* The webhook's specification: requests to /webhooks/fathom/call-completed
\* and /health, and the background tasks run one by one

OtherSecret == <<"a">>

\* The X-Fathom-Signature header of a request: missing, the digest of some
\* body under the configured secret, a digest under another secret, or a
\* value that is not ASCII.
Headers ==
    {None, Some(hmac_hexdigest(OtherSecret, <<"a">>)), Some(<<NonAscii>>)}
        \cup {Some(hmac_hexdigest(FathomSecret, b)) : b \in Bodies}

\* POST /webhooks/fathom/call-completed; njobs counts the requests.
FathomWebhook(body, header) ==
    /\ ret.op = "none"
    /\ njobs < MaxJobs
    /\ njobs' = njobs + 1
    /\ LET r == fathom_webhook(body, header)
       IN  /\ queue' = IF IsNone(r.job) THEN queue ELSE enqueue(queue, Val(r.job))
           /\ enqueued' = IF IsNone(r.job) THEN enqueued ELSE Append(enqueued, Val(r.job))
           /\ tasks' = IF IsNone(r.job) THEN tasks ELSE Append(tasks, Val(r.job))
           /\ ret' = [NoCall EXCEPT !.op = "fathom_webhook", !.code = r.code,
                                    !.body = body, !.signature = header]
    /\ UNCHANGED <<chunkVars, repoVars, dequeued>>

\* The background task added by the webhook runs: run_ingest_job(job).
RunIngestTask ==
    /\ ret.op = "none"
    /\ Len(tasks) > 0
    /\ tasks' = Tail(tasks)
    /\ SetRepo(run_ingest_job(Repo, Head(tasks)))
    /\ ret' = [NoCall EXCEPT !.op = "run_ingest_job",
                             !.call_id = Head(tasks).call_id,
                             !.status =
                                 IF \/ FetchRaises(Head(tasks))
                                    \/ EmbeddingRaises(JobChunks(Head(tasks).call_id,
                                           Val(Head(tasks).transcript_url)))
                                 THEN "raised" ELSE "ok"]
    /\ UNCHANGED <<chunkVars, njobs, queue, enqueued, dequeued>>

\* GET /health
Health ==
    /\ ret.op = "none"
    /\ ret' = [NoCall EXCEPT !.op = "health", !.depth = QueueLen(queue)]
    /\ UNCHANGED <<chunkVars, repoVars, njobs, webVars>>

NextWebhook ==
    \/ \E body \in Bodies, header \in Headers : FathomWebhook(body, header)
    \/ RunIngestTask
    \/ Health
    \/ Respond

SpecWebhook == Init /\ [][NextWebhook]_vars

----------------------------------------------------------------------------
\* The lexical scorer's specification: _lexical_scores on a repository of one
\* document and one chunk, for every text and query within the bounds.

MaxLexLen == 3

LexChars == {"a", "A", "b", Space}

LexStrings == UNION {[1..n -> LexChars] : n \in 0..MaxLexLen}

LexDoc == Document(DocId("c1"), "fathom", "c1", None)

LexChunk(text) ==
    [id |-> <<LexDoc.id, 0>>, document_id |-> LexDoc.id, idx |-> 0, speaker |-> "client",
     start_ms |-> 0, end_ms |-> 1, text |-> text, token_count |-> 1]

InitLexical ==
    /\ IdleChunker
    /\ \E text \in LexStrings :
          LET r == upsert_chunks(upsert_document(EmptyRepo, LexDoc, None), <<LexChunk(text)>>)
          IN  /\ documents = r.documents
              /\ chunks = r.chunks
              /\ embeddings = r.embeddings
              /\ chunks_by_doc = r.chunks_by_doc
              /\ acls = r.acls
    /\ ret = NoCall
    /\ njobs = 0
    /\ IdleWeb

\* repo._lexical_scores(query, None, None)
ScoreLexically(query) ==
    /\ ret.op = "none"
    /\ ret' = [NoCall EXCEPT !.op = "_lexical_scores", !.query = query,
                             !.results = _lexical_scores(Repo, query, None, None)]
    /\ UNCHANGED <<chunkVars, repoVars, njobs, webVars>>

NextLexical ==
    \/ \E q \in LexStrings : ScoreLexically(q)
    \/ Respond

SpecLexical == InitLexical /\ [][NextLexical]_vars

Next ==
    \/ \E c \in Calls, t \in Transcripts, p \in People :
            RunIngestJob(c, t, p.emails, p.tags)
    \/ \E q \in Queries, f \in FilterChoices, l \in Limits, v \in Viewers :
            PerformSearch(q, f, l, v)
    \/ Respond

Spec == Init /\ [][Next]_vars

----------------------------------------------------------------------------
\* The chunker's specification: chunk_segments run one loop iteration at a
\* time on every input within the bounds.

InitChunker ==
    /\ InitRepo
    /\ segments \in {SegmentsOf(t) : t \in SegLists}
    /\ target_chars \in 1..MaxTarget
    /\ overlap_chars \in 0..MaxOverlap
    /\ pos = 1
    /\ buffer = <<>>
    /\ buffer_len = 0
    /\ idx = 0
    /\ out = <<>>
    /\ flushes = <<>>

Locals == [chunks |-> out, buffer |-> buffer, buffer_len |-> buffer_len, idx |-> idx]

SetLocals(st) ==
    /\ out' = st.chunks
    /\ buffer' = st.buffer
    /\ buffer_len' = st.buffer_len
    /\ idx' = st.idx

\* One iteration of the for loop; flushes records the buffer of each chunk
\* emitted.
LoopIteration ==
    /\ pos <= Len(segments)
    /\ SetLocals(LoopBody(Locals, segments[pos], ChunkDoc, target_chars, overlap_chars))
    /\ flushes' = IF Len(Strip(segments[pos].text)) > 0
                      /\ Closes(Locals, segments[pos], target_chars)
                   THEN Append(flushes, buffer) ELSE flushes
    /\ pos' = pos + 1
    /\ UNCHANGED <<segments, target_chars, overlap_chars, repoVars, ret, njobs, webVars>>

\* The final flush and the return.
ReturnChunks ==
    /\ pos = Len(segments) + 1
    /\ SetLocals(Finish(Locals, ChunkDoc))
    /\ flushes' = IF Len(buffer) > 0 THEN Append(flushes, buffer) ELSE flushes
    /\ pos' = pos + 1
    /\ UNCHANGED <<segments, target_chars, overlap_chars, repoVars, ret, njobs, webVars>>

Returned == pos = Len(segments) + 2

\* The caller keeps what chunk_segments returned, with the identifier
\* generate_chunk_id gives each chunk's text, and calls chunk_segments again on
\* the same arguments.
CallAgain ==
    /\ Returned
    /\ ret.op = "none"
    /\ ret' = [NoCall EXCEPT !.op = "chunk_segments",
                             !.job_chunks = out,
                             !.results = [k \in 1..Len(out) |->
                                 generate_chunk_id(SourceType, SourceId, out[k].text)]]
    /\ SetLocals(ChunkerStart)
    /\ flushes' = <<>>
    /\ pos' = 1
    /\ UNCHANGED <<segments, target_chars, overlap_chars, repoVars, njobs, webVars>>

NextChunker == LoopIteration \/ ReturnChunks \/ CallAgain

SpecChunker == InitChunker /\ [][NextChunker]_vars

----------------------------------------------------------------------------
\* What the claims speak of

Searched == ret.op = "search" /\ ret.status = "ok"

ResultIds == {ret.results[k].id : k \in 1..Len(ret.results)}

ChunkSet == {chunks[i] : i \in 1..Len(chunks)}

ChunkOf(id) == CHOOSE c \in ChunkSet : c.id = id

\* The place of a chunk in the enumeration of the stored chunks.
PlaceOf(id) == CHOOSE i \in 1..Len(chunks) : chunks[i].id = id

HasAllowList(d) == d \in DOMAIN acls

\* The viewer is on the document's allow-list, compared case-insensitively.
OnAllowList(d, viewer) ==
    \E i \in 1..Len(acls[d]) : Lower(acls[d][i]) = Lower(viewer)

VisibleTo(d, viewer) == ~HasAllowList(d) \/ OnAllowList(d, viewer)

\* The lexical and the vector score the claims give a stored chunk for the
\* query of the last search, in 25ths; 0 when it has none.
LexOf(c) == Float(LexicalScore(c, QueryTokens(ret.query)))

VecOf(c) ==
    IF EmbId(c.id) \in DOMAIN embeddings
       /\ dot(embed_text(ret.query), embeddings[EmbId(c.id)].vector) > 0
    THEN dot(embed_text(ret.query), embeddings[EmbId(c.id)].vector)
    ELSE 0

----------------------------------------------------------------------------
\* C1: with a non-empty viewer identity, a chunk is in the results of search
\* only if its document has no allow-list or its allow-list holds the viewer,
\* compared case-insensitively, whichever path scored it; a viewer on no
\* allow-list, when every document has one, gets an empty list, and the
\* mismatch raises no error.
C1_OnlyVisibleChunks ==
    (ret.op = "search" /\ Truthy(ret.viewer_email)) =>
        /\ \A k \in 1..Len(ret.results) :
              VisibleTo(ret.results[k].document_id, Val(ret.viewer_email))
        /\ (\A d \in DOMAIN documents :
                HasAllowList(d) /\ ~OnAllowList(d, Val(ret.viewer_email)))
              => /\ ret.results = <<>>
                 /\ ~EmbedRaises(ret.query) => ret.status = "ok"

\* A search by a viewer who is on an allow-list only case-insensitively, while
\* a chunk that scores on both paths is withheld from that viewer.
C1_Witness ==
    /\ Searched
    /\ Truthy(ret.viewer_email)
    /\ \E k \in 1..Len(ret.results) :
          LET d == ret.results[k].document_id
          IN  /\ HasAllowList(d)
              /\ ~InSeq(Val(ret.viewer_email), acls[d])
    /\ \E c \in ChunkSet :
          /\ ~VisibleTo(c.document_id, Val(ret.viewer_email))
          /\ LexOf(c) > 0
          /\ VecOf(c) > 0
          /\ c.id \notin ResultIds

\* The repository with every allow-list removed.
WithoutAcls(repo) == [repo EXCEPT !.acls = <<>>]

\* The repository holding only the chunks of the documents the viewer may see.
VisiblePart(repo, viewer) ==
    [repo EXCEPT !.chunks = SelectSeq(repo.chunks, LAMBDA c : VisibleTo(c.document_id, viewer))]

\* C2 as stated: without a viewer identity the results are those of the same
\* search on the repository with every allow-list removed, and whenever a
\* viewer identity is supplied the allow-lists are enforced.
C2_EnforcedWheneverSupplied ==
    Searched =>
        /\ IsNone(ret.viewer_email) =>
              ret.results = search(WithoutAcls(Repo), ret.query, ret.filters, ret.limit, None)
        /\ ~IsNone(ret.viewer_email) =>
              \A k \in 1..Len(ret.results) :
                  VisibleTo(ret.results[k].document_id, Val(ret.viewer_email))

\* C2 amended: without a viewer identity, or with the empty string for one, the
\* results are those any viewer gets from the repository with every allow-list
\* removed; with a non-empty viewer identity they are exactly the results of the
\* unfiltered search over the documents that viewer may see.
C2_AdminModeIffNoViewer ==
    Searched =>
        /\ ~Truthy(ret.viewer_email) =>
              \A v \in Viewers :
                  ret.results = search(WithoutAcls(Repo), ret.query, ret.filters, ret.limit, v)
        /\ Truthy(ret.viewer_email) =>
              ret.results = search(VisiblePart(Repo, Val(ret.viewer_email)),
                                   ret.query, ret.filters, ret.limit, None)

\* A search without a viewer returns a chunk of a document that has an
\* allow-list, next to another result.
C2_Witness ==
    /\ Searched
    /\ IsNone(ret.viewer_email)
    /\ Len(ret.results) >= 2
    /\ \E k \in 1..Len(ret.results) : HasAllowList(ret.results[k].document_id)

\* The candidates of the last search and those of them that score.
Candidates == {c \in ChunkSet : IterKeeps(Repo, c, ret.filters, ret.viewer_email)}

Scoring == {c \in Candidates : LexOf(c) > 0 \/ VecOf(c) > 0}

FusedOf(c) == LexOf(c) + VecOf(c)

\* C3: every result is a candidate that scores lexically or by vector, its
\* score is its lexical score plus its vector score and is positive; when the
\* limit truncates nothing, the results are exactly the scoring candidates.
C3_FusedScores ==
    Searched =>
        /\ \A k \in 1..Len(ret.results) :
              \E c \in Scoring :
                  /\ c.id = ret.results[k].id
                  /\ ret.results[k].score = FusedOf(c)
                  /\ ret.results[k].score > 0
        /\ ret.limit >= Cardinality(Scoring) => ResultIds = {c.id : c \in Scoring}

\* One search returns a chunk matched only lexically, one matched only by
\* vector and one matched both ways, and leaves out a candidate that scores on
\* neither path.
C3_Witness ==
    /\ Searched
    /\ \E c \in Scoring : c.id \in ResultIds /\ LexOf(c) > 0 /\ VecOf(c) = 0
    /\ \E c \in Scoring : c.id \in ResultIds /\ LexOf(c) = 0 /\ VecOf(c) > 0
    /\ \E c \in Scoring : c.id \in ResultIds /\ LexOf(c) > 0 /\ VecOf(c) > 0
    /\ \E c \in Candidates : c \notin Scoring

ScoreAt(k) == ret.results[k].score

LexMatched(k) == LexOf(ChunkOf(ret.results[k].id)) > 0

\* C4 as stated: results are in descending order of fused score, and results
\* of equal score are in the order of the chunk enumeration, however each of
\* them matched.
C4_TiesInEnumerationOrder ==
    Searched =>
        \A i, j \in 1..Len(ret.results) :
            i < j =>
                \/ ScoreAt(i) > ScoreAt(j)
                \/ /\ ScoreAt(i) = ScoreAt(j)
                   /\ PlaceOf(ret.results[i].id) < PlaceOf(ret.results[j].id)

\* C4 amended: results are in descending order of fused score; of two results
\* of equal score, one that matched lexically precedes one that matched by
\* vector only, and otherwise they are in the order of the chunk enumeration.
C4_TiesLexicalFirst ==
    Searched =>
        \A i, j \in 1..Len(ret.results) :
            i < j =>
                \/ ScoreAt(i) > ScoreAt(j)
                \/ /\ ScoreAt(i) = ScoreAt(j)
                   /\ \/ LexMatched(i) /\ ~LexMatched(j)
                      \/ /\ LexMatched(i) = LexMatched(j)
                         /\ PlaceOf(ret.results[i].id) < PlaceOf(ret.results[j].id)

\* Two results of equal score, the first matched lexically and stored later
\* than the second, which matched by vector only; and two more of equal score
\* in enumeration order.
C4_Witness ==
    /\ Searched
    /\ \E i, j \in 1..Len(ret.results) :
          /\ i < j
          /\ ScoreAt(i) = ScoreAt(j)
          /\ LexMatched(i) /\ ~LexMatched(j)
          /\ PlaceOf(ret.results[i].id) > PlaceOf(ret.results[j].id)
    /\ \E i, j \in 1..Len(ret.results) :
          /\ i < j
          /\ ScoreAt(i) = ScoreAt(j)
          /\ LexMatched(i) = LexMatched(j)

\* C5: for a limit of at least 1, search returns min(limit, number of scoring
\* candidates) results, the first of the full ordering, none of them scoring
\* less than a candidate left out, each chunk once, the i-th with rank i.
C5_TopLimitDenseRanks ==
    (Searched /\ ret.limit >= 1) =>
        LET n == IF ret.limit < Cardinality(Scoring) THEN ret.limit ELSE Cardinality(Scoring)
            full == search(Repo, ret.query, ret.filters, Len(chunks), ret.viewer_email)
        IN  /\ Len(ret.results) = n
            /\ \A k \in 1..n : ret.results[k].rank = k
            /\ \A k \in 1..n : ret.results[k].id = full[k].id
            /\ \A i, j \in 1..n : i # j => ret.results[i].id # ret.results[j].id
            /\ \A c \in Scoring :
                  c.id \notin ResultIds => \A k \in 1..n : ScoreAt(k) >= FusedOf(c)

\* A search whose limit cuts the scoring candidates down to two or more
\* results.
C5_Witness ==
    /\ Searched
    /\ ret.limit >= 2
    /\ Cardinality(Scoring) > ret.limit
    /\ Len(ret.results) = ret.limit

\* C6 as stated: a search with a limit of 0 or less is rejected as an invalid
\* request and returns no results.
C6_NonPositiveLimitRejected ==
    (ret.op = "search" /\ ret.limit <= 0) =>
        /\ ret.status = "invalid"
        /\ ret.results = <<>>

\* The ranking of the last search by lexical scores alone.
LexicalOnlyRanking ==
    LET ranked == SliceTo(SortedByScoreDesc(
                      _lexical_scores(Repo, ret.query, ret.filters, ret.viewer_email)),
                      ret.limit)
    IN  [k \in 1..Len(ranked) |-> SearchResult(Repo, ranked[k], k)]

\* C7 as stated: when embedding the query fails, search still returns, and
\* returns the ranking by lexical scores alone.
C7_LexicalFallbackOnEmbedFailure ==
    (ret.op = "search" /\ EmbedRaises(ret.query)) =>
        /\ ret.status = "ok"
        /\ ret.results = LexicalOnlyRanking

\* C8 as stated: when embedding a chunk fails during process_job, the document
\* and every chunk of the job are stored and reachable by search, a chunk whose
\* embedding failed has no vector, and every other chunk of the job has its
\* embedding.
C8_EmbedFailureKeepsOtherEmbeddings ==
    (ret.op = "process_job" /\ ret.status = "raised") =>
        /\ DocId(ret.call_id) \in DOMAIN documents
        /\ \A k \in 1..Len(ret.job_chunks) :
              LET c == ret.job_chunks[k]
              IN  /\ InSeq(c, _iter_chunks(Repo, None, None))
                  /\ EmbedRaises(c.text) => EmbId(c.id) \notin DOMAIN embeddings
                  /\ ~EmbedRaises(c.text) =>
                        /\ EmbId(c.id) \in DOMAIN embeddings
                        /\ embeddings[EmbId(c.id)].vector = embed_text(c.text)

----------------------------------------------------------------------------
\* Chunk sizes and numbering (chunker.py), under SpecChunker

\* The buffer the k-th emitted chunk was flushed from.
BufferOf(k) == flushes[k]

\* Whether the k-th chunk's buffer opens with an overlap seed: every chunk
\* after the first does when overlap_chars is not 0.
Seeded(k) == k > 1 /\ overlap_chars # 0

\* The number of input segments in the k-th chunk.
SegmentCount(k) == Len(BufferOf(k)) - (IF Seeded(k) THEN 1 ELSE 0)

\* The pieces of the k-th chunk that are longer than target_chars.
Oversized(k) ==
    {i \in 1..Len(BufferOf(k)) : Len(BufferOf(k)[i].text) > target_chars}

\* C9 as stated: with 0 <= O < T, every emitted chunk's text is at most T
\* characters long unless the chunk contains exactly one segment that is
\* itself longer than T.
C9_TextWithinTarget ==
    overlap_chars < target_chars =>
        \A k \in 1..Len(out) :
            \/ Len(out[k].text) <= target_chars
            \/ Cardinality(Oversized(k)) = 1

\* C9 as the code has it: with 0 <= O < T, a chunk of two or more segments
\* holds at most T characters of segment and seed text and one joining space
\* per piece after the first; a chunk of exactly one segment holds that
\* segment, whatever its length, preceded when the chunk is seeded by at most
\* O characters of overlap and one joining space.
C9_TextWithinTargetPlusJoins ==
    overlap_chars < target_chars =>
        \A k \in 1..Len(out) :
            LET buf == BufferOf(k)
                n == Len(buf)
            IN  IF SegmentCount(k) = 1
                THEN IF Seeded(k)
                     THEN /\ Len(buf[1].text) <= overlap_chars
                          /\ Len(out[k].text) <= Len(buf[1].text) + 1 + Len(buf[n].text)
                     ELSE Len(out[k].text) <= Len(buf[n].text)
                ELSE /\ SegmentCount(k) >= 2
                     /\ SumSeq([i \in 1..n |-> Len(buf[i].text)]) <= target_chars
                     /\ Len(out[k].text) <= target_chars + (n - 1)

\* A run has returned, with 0 <= O < T, one chunk of several segments that is
\* longer than T only by its joining spaces and one seeded chunk of a single
\* segment, no longer than T itself, that is longer than T with its seed.
C9_Witness ==
    /\ Returned
    /\ overlap_chars < target_chars
    /\ \E k \in 1..Len(out) :
        /\ SegmentCount(k) >= 2
        /\ Oversized(k) = {}
        /\ Len(out[k].text) > target_chars
    /\ \E k \in 1..Len(out) :
        /\ SegmentCount(k) = 1
        /\ Seeded(k)
        /\ Oversized(k) = {}
        /\ Len(out[k].text) > target_chars

\* C10: the chunks emitted for one document carry idx 0, 1, 2, ... in emission
\* order, none has an empty text, and every token_count is at least 1.
C10_DenseIdxNonEmptyText ==
    \A k \in 1..Len(out) :
        /\ out[k].idx = k - 1
        /\ out[k].id = <<ChunkDoc, k - 1>>
        /\ Len(out[k].text) > 0
        /\ out[k].token_count >= 1

\* A run has returned two or more chunks from a transcript holding a blank segment.
C10_Witness ==
    /\ Returned
    /\ Len(out) >= 2
    /\ idx = Len(out) - 1
    /\ \E i \in 1..Len(segments) : Len(Strip(segments[i].text)) = 0
    /\ \E k \in 1..Len(out) : out[k].token_count >= 2

----------------------------------------------------------------------------
\* Segments kept whole and in order (chunker.py), under SpecChunker

\* The input segments a buffer holds after its overlap seed, if it has one.
SegmentPieces(buf, seeded) == IF seeded /\ Len(buf) > 0 THEN Tail(buf) ELSE buf

\* The input segments of the first k emitted chunks, in emission order.
RECURSIVE EmittedSegments(_)
EmittedSegments(k) ==
    IF k = 0 THEN <<>>
    ELSE EmittedSegments(k - 1) \o SegmentPieces(BufferOf(k), Seeded(k))

\* The non-blank segments among the first n of the input.
NonBlankUpTo(n) ==
    SelectSeq(SubSeq(segments, 1, n), LAMBDA s : Len(Strip(s.text)) > 0)

\* Whether piece occurs whole in text.
OccursIn(piece, text) == \E i \in 1..(Len(text) + 1) : MatchAt(text, piece, i)

\* C11: the non-blank segments read so far are, in input order, the segments
\* of the emitted chunks followed by those of the open buffer; each chunk's
\* text is the space-joined stripped texts of its pieces, so each segment's
\* stripped text is whole inside it; blank segments are in no chunk, and once
\* chunk_segments has returned every non-blank segment is in a chunk, with no
\* chunk at all when there was none.
C11_NoSegmentLostOrSplit ==
    LET done == IF pos <= Len(segments) THEN pos - 1 ELSE Len(segments)
        open == IF Returned THEN <<>>
                ELSE SegmentPieces(buffer, Len(out) > 0 /\ overlap_chars # 0)
    IN  /\ Len(flushes) = Len(out)
        /\ NonBlankUpTo(done) = EmittedSegments(Len(out)) \o open
        /\ \A k \in 1..Len(out) :
              /\ out[k].text =
                    JoinSpace([i \in 1..Len(BufferOf(k)) |-> Strip(BufferOf(k)[i].text)])
              /\ Len(SegmentPieces(BufferOf(k), Seeded(k))) >= 1
              /\ \A i \in 1..Len(BufferOf(k)) :
                    OccursIn(Strip(BufferOf(k)[i].text), out[k].text)
        /\ Returned => (Len(out) = 0 <=> NonBlankUpTo(Len(segments)) = <<>>)

\* A returned run over blank and non-blank segments whose last chunk, flushed
\* after the loop, holds two segments.
C11_Witness ==
    /\ Returned
    /\ Len(out) >= 1
    /\ Len(NonBlankUpTo(Len(segments))) < Len(segments)
    /\ Len(SegmentPieces(BufferOf(Len(out)), Seeded(Len(out)))) >= 2

----------------------------------------------------------------------------
\* The overlap seed (chunker.py), under SpecChunker

\* The last piece of the k-th chunk's buffer: its last contributing segment.
LastPiece(k) == BufferOf(k)[Len(BufferOf(k))]

\* Whether text begins with prefix.
BeginsWith(text, prefix) == MatchAt(text, prefix, 1)

\* C12 as stated: with O > 0 a chunk after the first begins with exactly the
\* trailing O characters of the last segment of the chunk closed before it,
\* and that seed carries the segment's speaker, start and end offsets; with
\* O = 0 it begins with its own first segment, which follows the closed chunk
\* (for 0 <= O < T, the overlaps the chunker's contract names).
C12_SeedIsTrailingOverlap ==
    \A k \in 2..Len(out) :
        LET tail == LastPiece(k - 1)
            seed == BufferOf(k)[1]
        IN  IF overlap_chars >= target_chars THEN TRUE
            ELSE IF overlap_chars > 0
            THEN /\ Len(seed.text) = overlap_chars
                 /\ seed.text = LastChars(tail.text, overlap_chars)
                 /\ BeginsWith(out[k].text, seed.text)
                 /\ seed.speaker = tail.speaker
                 /\ seed.start_ms = tail.start_ms
                 /\ seed.end_ms = tail.end_ms
            ELSE seed.start_ms >= tail.end_ms

\* C12 as the code has it: with O > 0 the buffer of a chunk after the first
\* begins with a seed holding the trailing O characters of the last segment of
\* the chunk closed before it, or all of that segment when it is shorter than
\* O, with the segment's speaker, start and end offsets; the chunk's text
\* begins with the seed stripped of surrounding whitespace and a joining space,
\* and the chunk has the seed's speaker and start offset.  With O = 0 the
\* buffer begins with the chunk's own first segment, which follows the closed
\* chunk in the input.
C12_SeedIsStrippedTail ==
    \A k \in 2..Len(out) :
        LET tail == LastPiece(k - 1)
            seed == BufferOf(k)[1]
            n == IF overlap_chars < Len(tail.text) THEN overlap_chars ELSE Len(tail.text)
        IN  IF overlap_chars > 0
            THEN /\ Len(seed.text) = n
                 /\ seed.text = SubSeq(tail.text, Len(tail.text) - n + 1, Len(tail.text))
                 /\ BeginsWith(out[k].text, Strip(seed.text) \o <<Space>>)
                 /\ seed.speaker = tail.speaker
                 /\ seed.start_ms = tail.start_ms
                 /\ seed.end_ms = tail.end_ms
                 /\ out[k].speaker = tail.speaker
                 /\ out[k].start_ms = tail.start_ms
                 /\ Len(BufferOf(k)) >= 2
            ELSE /\ seed.start_ms >= tail.end_ms
                 /\ out[k].start_ms = seed.start_ms
                 /\ out[k].text =
                       JoinSpace([i \in 1..Len(BufferOf(k)) |-> Strip(BufferOf(k)[i].text)])

\* A returned run with 0 < O < T in which a chunk of two segments was closed
\* and its last segment, shorter than O, seeds the next chunk.
C12_Witness ==
    /\ Returned
    /\ overlap_chars > 0
    /\ overlap_chars < target_chars
    /\ \E k \in 2..Len(out) :
          /\ Len(SegmentPieces(BufferOf(k - 1), Seeded(k - 1))) >= 2
          /\ Len(LastPiece(k - 1).text) < overlap_chars
          /\ BufferOf(k)[1].text = LastPiece(k - 1).text

----------------------------------------------------------------------------
\* C13: after process_job has run on a job, running it again on the same job
\* and transcript leaves documents, chunks, chunks_by_doc, embeddings and acls
\* as the first run left them, whether the run returned or raised.
C13_ReingestIsIdempotent ==
    ret.op = "process_job" =>
        process_job(Repo, ret.call_id, ret.texts, ret.emails, ret.tags) = Repo

\* A second run of a job with chunks, an allow-list and a project that left
\* the repository as it found it.
C13_Witness ==
    /\ ret.op = "process_job"
    /\ ret.status = "ok"
    /\ ret.unchanged
    /\ Len(ret.job_chunks) >= 2
    /\ DocId(ret.call_id) \in DOMAIN acls
    /\ \A k \in 1..Len(ret.job_chunks) : EmbId(ret.job_chunks[k].id) \in DOMAIN embeddings

----------------------------------------------------------------------------
----------------------------------------------------------------------------
----------------------------------------------------------------------------
\* Alerts of the signal detector (detector.py), under SpecDetector

Detected == ret.op = "detect_signals"

SignalTypes == {SignalType[k] : k \in 1..Len(SignalType)}

\* The keyword rules, risks and opportunities together.
Rules == RISK_KEYWORDS \o OPPORTUNITY_KEYWORDS

\* The types with a rule of which some pattern matches the content.
KeywordFired(content) ==
    {t \in SignalTypes :
        \E r \in 1..Len(Rules) :
            /\ Rules[r].signal_type = t
            /\ \E p \in 1..Len(Rules[r].patterns) : re_search(Rules[r].patterns[p], content)}

\* The number of patterns of the type's rule that match the content.
PatternsMatching(t, content) ==
    Cardinality({<<r, p>> \in (1..Len(Rules)) \X (1..6) :
        /\ Rules[r].signal_type = t
        /\ p <= Len(Rules[r].patterns)
        /\ re_search(Rules[r].patterns[p], content)})

\* The types the classifier reported to the last call.
ClassifierReported ==
    IF ret.use_llm
    THEN {_detect_with_llm(ret.llm)[k] : k \in 1..Len(_detect_with_llm(ret.llm))}
    ELSE {}

\* The number of alerts of the type in the last result.
AlertsOf(t) == Cardinality({k \in 1..Len(ret.results) : ret.results[k].signal_type = t})

\* C16: detect_signals returns one alert for each type that a pattern of its
\* rule or the classifier fired and none for any other type, however many
\* patterns matched and whether or not both sources fired it; in keyword-only
\* mode a content matching no pattern gives no alert.
C16_OneAlertPerFiredType ==
    Detected =>
        /\ \A t \in SignalTypes :
              AlertsOf(t) = IF t \in KeywordFired(ret.content) \cup ClassifierReported
                            THEN 1 ELSE 0
        /\ \A k \in 1..Len(ret.results) : ret.results[k].signal_type \in SignalTypes
        /\ (~ret.use_llm /\ KeywordFired(ret.content) = {}) => ret.results = <<>>

\* A call whose content matches two patterns of one rule, whose classifier
\* reported that type too and one more, returning two alerts.
C16_Witness ==
    /\ Detected
    /\ ret.use_llm
    /\ \E t \in KeywordFired(ret.content) \cap ClassifierReported :
          PatternsMatching(t, ret.content) >= 2
    /\ ClassifierReported \ KeywordFired(ret.content) # {}
    /\ Len(ret.results) = 2

\* C17 as stated: every alert has severity "high" if its type is the budget
\* risk and "medium" for every other type; "low" is never assigned.
C17_BudgetRiskIsHigh ==
    Detected =>
        \A k \in 1..Len(ret.results) :
            ret.results[k].severity =
                IF ret.results[k].signal_type = RISK_BUDGET THEN "high" ELSE "medium"

\* C18: when the classifier's completion raises, detect_signals returns
\* normally, with one alert for each type a keyword rule fired and no other.
C18_ClassifierFailureKeepsKeywordAlerts ==
    (Detected /\ ret.use_llm /\ ret.llm.raises) =>
        /\ ret.status = "ok"
        /\ \A t \in SignalTypes :
              AlertsOf(t) = IF t \in KeywordFired(ret.content) THEN 1 ELSE 0
        /\ Len(ret.results) = Cardinality(KeywordFired(ret.content))

\* A call with a failing classifier that returned the alerts of three keyword
\* rules.
C18_Witness ==
    /\ Detected
    /\ ret.use_llm
    /\ ret.llm.raises
    /\ ret.status = "ok"
    /\ Len(ret.results) >= 3

----------------------------------------------------------------------------
\* Batch keyword alerts (alerts.py), under SpecAlerts

Scored == ret.op = "score"

\* The alerts of the last call for the r-th rule.
AlertsOfRule(r) ==
    {k \in 1..Len(ret.results) : ret.results[k].alert_type = rules[r].alert_type}

\* The keyword-occurrence count of the k-th chunk of the batch for the r-th rule.
CountOf(r, k) == KeywordScore(ret.job_chunks[k], rules[r].keywords)

MaxCount(r) == Max({0} \cup {CountOf(r, k) : k \in 1..Len(ret.job_chunks)})

\* The earliest chunk of the batch with the maximal count.
EarliestBest(r) ==
    Min({k \in 1..Len(ret.job_chunks) : CountOf(r, k) = MaxCount(r)})

\* C19: each rule yields at most one alert per call, and one iff some chunk
\* of the batch has a positive keyword count for it; the alert carries the
\* text, speaker and start of the earliest chunk with the maximal count, and
\* its score is that count.
C19_BestChunkPerRule ==
    Scored =>
        /\ \A k \in 1..Len(ret.results) :
              \E r \in 1..Len(rules) : ret.results[k].alert_type = rules[r].alert_type
        /\ \A r \in 1..Len(rules) :
              /\ Cardinality(AlertsOfRule(r)) <= 1
              /\ (AlertsOfRule(r) # {}) <=>
                     (\E k \in 1..Len(ret.job_chunks) : CountOf(r, k) > 0)
              /\ \A a \in AlertsOfRule(r) :
                    LET best == ret.job_chunks[EarliestBest(r)]
                    IN  /\ ret.results[a].score = Float(MaxCount(r))
                        /\ ret.results[a].score > 0
                        /\ ret.results[a].chunks =
                               <<[text |-> best.text, speaker |-> best.speaker,
                                  start_ms |-> best.start_ms]>>

\* A batch in which two chunks tie for the best count of one rule, a third
\* chunk counts less for it, and another rule fires too.
C19_Witness ==
    /\ Scored
    /\ Len(ret.results) >= 2
    /\ \E r \in 1..Len(rules) :
          /\ AlertsOfRule(r) # {}
          /\ \E i, j \in 1..Len(ret.job_chunks) :
                /\ i < j
                /\ ret.job_chunks[i].text # ret.job_chunks[j].text
                /\ CountOf(r, i) = MaxCount(r)
                /\ CountOf(r, j) = MaxCount(r)
          /\ \E k \in 1..Len(ret.job_chunks) : CountOf(r, k) < MaxCount(r)

----------------------------------------------------------------------------
\* Filters of search (repositories.py), under Spec

\* The chunks the viewer of the last search may see.
VisibleChunks ==
    {c \in ChunkSet :
        /\ c.document_id \in DOMAIN documents
        /\ Truthy(ret.viewer_email) => VisibleTo(c.document_id, Val(ret.viewer_email))}

\* Whether the document's value is one of the filter's values.
OneOf(value, values) == ~IsNone(value) /\ InSeq(Val(value), values)

\* The document passes the filters that restrict: those for which restricts()
\* holds of the filter's list.
PassesThose(d, restricts(_)) ==
    \/ IsNone(ret.filters)
    \/ LET f == Val(ret.filters)
       IN  /\ restricts(f.source) => OneOf(Some(documents[d].source), Val(f.source))
           /\ restricts(f.project) => OneOf(documents[d].project, Val(f.project))

Supplied(list) == ~IsNone(list)

SuppliedNonEmpty(list) == ~IsNone(list) /\ Len(Val(list)) > 0

\* C20 as stated: a chunk the viewer may see is a candidate of search iff its
\* document's source is one of filters.source when that is supplied and its
\* project is one of filters.project when that is supplied; every result is
\* such a chunk.
C20_CandidateIffPassesSupplied ==
    Searched =>
        /\ \A c \in VisibleChunks :
              c \in Candidates <=> PassesThose(c.document_id, Supplied)
        /\ \A k \in 1..Len(ret.results) :
              PassesThose(ret.results[k].document_id, Supplied)

\* C20 as the code has it: a filter restricts when it is supplied with at
\* least one value; an omitted filter and an empty list of values restrict
\* nothing.
C20_CandidateIffPassesNonEmpty ==
    Searched =>
        /\ \A c \in VisibleChunks :
              c \in Candidates <=> PassesThose(c.document_id, SuppliedNonEmpty)
        /\ \A k \in 1..Len(ret.results) :
              PassesThose(ret.results[k].document_id, SuppliedNonEmpty)

\* A search with both filters supplied, the source filter with two values,
\* that returns a chunk and leaves out a scoring chunk whose document passes
\* the source filter only.
C20_Witness ==
    /\ Searched
    /\ ~IsNone(ret.filters)
    /\ SuppliedNonEmpty(Val(ret.filters).source)
    /\ SuppliedNonEmpty(Val(ret.filters).project)
    /\ Len(Val(Val(ret.filters).source)) >= 2
    /\ Len(ret.results) >= 1
    /\ \E c \in VisibleChunks :
          /\ c \notin Candidates
          /\ LexOf(c) > 0
          /\ InSeq(documents[c.document_id].source, Val(Val(ret.filters).source))

----------------------------------------------------------------------------
\* Allow-lists across upserts (repositories.py, worker.py), under Spec

\* The last call was a run of process_job whose transcript has no participant
\* email, so that acl_resolver gave None to upsert_document.
UpsertedWithoutAllowList ==
    ret.op = "process_job" /\ IsNone(acl_resolver(ret.emails))

\* C21 as stated: after a run of process_job whose upsert_document got
\* allowed_emails=None, the document has no allow-list and every viewer may
\* see it, whatever an earlier upsert of the same id had stored.
C21_NoAllowListAfterUpsertWithout ==
    UpsertedWithoutAllowList =>
        /\ ~HasAllowList(DocId(ret.call_id))
        /\ \A v \in Viewers :
              Truthy(v) => _is_allowed(Repo, DocId(ret.call_id), Val(v))

----------------------------------------------------------------------------
\* Embeddings per chunk and model (repositories.py), under SpecStore

Reembedded == ret.op = "upsert_embeddings"

StoredEmbeddings == {embeddings[k] : k \in DOMAIN embeddings}

\* The records the repository held for the chunk under another model before
\* the call.
OldModelRecords ==
    {ret.before[k] : k \in {j \in DOMAIN ret.before :
        /\ ret.before[j].chunk_id = ret.emb.chunk_id
        /\ ret.before[j].model # ret.emb.model}}

\* C22 as stated: after an embedding is stored for a chunk under a new model
\* identifier, the vector the chunk had under the old model identifier is
\* still stored, and the vector score of every chunk is the dot product of the
\* query vector with the chunk's stored vector of the query's model.
C22_OneVectorPerChunkAndModel ==
    Reembedded =>
        /\ \A old \in OldModelRecords :
              \E e \in StoredEmbeddings :
                  /\ e.chunk_id = old.chunk_id
                  /\ e.model = old.model
                  /\ e.vector = old.vector
        /\ \A q \in Queries :
              ~EmbedRaises(q) =>
                  LET table == _vector_scores(Repo, q, None, None)
                  IN  \A k \in 1..Len(table) :
                         \E e \in StoredEmbeddings :
                             /\ e.chunk_id = table[k].id
                             /\ e.model = QueryModel
                             /\ table[k].score = dot(embed_text(q), e.vector)

----------------------------------------------------------------------------
\* When a chunk closes (chunker.py), under SpecChunker

\* The accumulated length of a buffer: the lengths of its pieces' texts.
PiecesLen(buf) == SumSeq([i \in 1..Len(buf) |-> Len(buf[i].text)])

\* The segments of the k-th chunk that are longer than target_chars.
LongSegments(k) ==
    {i \in 1..Len(SegmentPieces(BufferOf(k), Seeded(k))) :
        Len(SegmentPieces(BufferOf(k), Seeded(k))[i].text) > target_chars}

\* C23: an iteration of the loop on segment s emits a chunk, flushed from the
\* buffer as it stood before s, exactly when s is not blank, the buffer is
\* not empty and the lengths accumulated in the buffer plus len(s) exceed
\* target_chars; a non-blank s then ends the buffer; and a segment longer than
\* target_chars is the only segment of its chunk, whole in the chunk's text.
C23_ClosesExactlyWhenOverTarget ==
    [][(pos <= Len(segments) /\ pos' = pos + 1) =>
          LET s == segments[pos]
              over == /\ Len(Strip(s.text)) > 0
                      /\ Len(buffer) > 0
                      /\ PiecesLen(buffer) + Len(s.text) > target_chars
          IN  /\ over => out' = Append(out, Flush(buffer, ChunkDoc, Len(out)))
              /\ ~over => out' = out
              /\ Len(Strip(s.text)) > 0 => buffer'[Len(buffer')] = s
              /\ \A k \in 1..Len(out') :
                    LongSegments(k)' # {} =>
                        /\ SegmentCount(k)' = 1
                        /\ OccursIn(Strip(BufferOf(k)[Len(BufferOf(k))].text), out[k].text)']_vars

\* A run has emitted a chunk of two segments and, after another chunk, a
\* chunk whose one segment is longer than target_chars.
C23_Witness ==
    /\ overlap_chars < target_chars
    /\ \E k \in 1..Len(out) : SegmentCount(k) = 2
    /\ \E k \in 2..Len(out) : LongSegments(k) # {} /\ SegmentCount(k) = 1

----------------------------------------------------------------------------
\* Trimmed chunk texts (chunker.py), under SpecChunker

\* C24 as stated: every emitted chunk's text is its pieces' stripped texts
\* joined by single spaces, and neither begins nor ends with whitespace.
C24_TextJoinedAndTrimmed ==
    \A k \in 1..Len(out) :
        /\ out[k].text =
              JoinSpace([i \in 1..Len(BufferOf(k)) |-> Strip(BufferOf(k)[i].text)])
        /\ Len(out[k].text) > 0
        /\ ~IsSpace(out[k].text[1])
        /\ ~IsSpace(out[k].text[Len(out[k].text)])

----------------------------------------------------------------------------
\* The lexical score (repositories.py), under SpecLexical

LexicallyScored == ret.op = "_lexical_scores"

\* The whitespace-separated tokens of the last query, lower-cased.
TokensOfQuery == [i \in 1..Len(Split(ret.query)) |-> Lower(Split(ret.query)[i])]

\* The places where tok occurs in text as a substring.
Occurrences(text, tok) == {i \in 1..Len(text) : MatchAt(text, tok, i)}

\* The largest number of occurrences of tok in text no two of which overlap.
DisjointOccurrences(text, tok) ==
    Max({Cardinality(S) : S \in {X \in SUBSET Occurrences(text, tok) :
            \A i, j \in X : i < j => j - i >= Len(tok)}})

\* The lexical table is the one entry of the chunk with the sum, when the sum
\* is not 0, and is empty otherwise.
TableIs(sum) ==
    IF sum = 0 THEN ret.results = <<>>
    ELSE ret.results = <<Entry(chunks[1].id, Float(sum))>>

\* C25 as stated: the chunk's lexical score is the sum, over the query's
\* lower-cased tokens, a repeated token counted each time, of the number of
\* places where the token occurs as a substring of the lower-cased text; a sum
\* of 0 gives no entry, and a query without tokens scores nothing.
C25_SumOfSubstringOccurrences ==
    LexicallyScored =>
        /\ TableIs(SumSeq([i \in 1..Len(TokensOfQuery) |->
                   Cardinality(Occurrences(Lower(chunks[1].text), TokensOfQuery[i]))]))
        /\ Len(Strip(ret.query)) = 0 => ret.results = <<>>

\* C25 with occurrences counted as str.count counts them: occurrences that
\* do not overlap one another.
C25_SumOfDisjointOccurrences ==
    LexicallyScored =>
        /\ TableIs(SumSeq([i \in 1..Len(TokensOfQuery) |->
                   DisjointOccurrences(Lower(chunks[1].text), TokensOfQuery[i])]))
        /\ Len(Strip(ret.query)) = 0 => ret.results = <<>>

\* A query holding an upper-case token has scored a text in which the token
\* occurs at two places that overlap.
C25_Witness ==
    /\ LexicallyScored
    /\ Len(ret.results) = 1
    /\ \E i \in 1..Len(TokensOfQuery) :
          /\ Split(ret.query)[i] # TokensOfQuery[i]
          /\ Cardinality(Occurrences(Lower(chunks[1].text), TokensOfQuery[i])) >
                DisjointOccurrences(Lower(chunks[1].text), TokensOfQuery[i])
----------------------------------------------------------------------------
\* Chunks of a re-ingested call (worker.py, repositories.py), under Spec

\* C26 as stated: after process_job has completed for a call, the stored
\* chunks of the call's document are exactly the chunks made from the
\* transcript of that run, the document's chunk list names exactly them, and
\* no embedding of another chunk of the document is stored.
C26_OnlyChunksOfLatestTranscript ==
    (ret.op = "process_job" /\ ret.status = "ok") =>
        LET d == DocId(ret.call_id)
            latest == {ret.job_chunks[k] : k \in 1..Len(ret.job_chunks)}
        IN  /\ {c \in ChunkSet : c.document_id = d} = latest
            /\ d \in DOMAIN chunks_by_doc =>
                  {chunks_by_doc[d][k] : k \in 1..Len(chunks_by_doc[d])}
                      = {c.id : c \in latest}
            /\ \A e \in DOMAIN embeddings :
                  embeddings[e].chunk_id[1] = d =>
                      embeddings[e].chunk_id \in {c.id : c \in latest}

----------------------------------------------------------------------------
\* References between the tables (worker.py, repositories.py), under Spec

\* Every chunk's document, every embedding's chunk and every listed chunk id
\* of the repository is stored in it.
Resolves(repo) ==
    LET stored == {repo.chunks[i] : i \in 1..Len(repo.chunks)}
    IN  /\ \A c \in stored : c.document_id \in DOMAIN repo.documents
        /\ \A e \in DOMAIN repo.embeddings :
              \E c \in stored : c.id = repo.embeddings[e].chunk_id
        /\ \A d \in DOMAIN repo.chunks_by_doc :
              \A k \in 1..Len(repo.chunks_by_doc[d]) :
                  \E c \in stored : c.id = repo.chunks_by_doc[d][k] /\ c.document_id = d

\* C27: in every reachable state every stored chunk's document is stored and
\* every stored embedding's chunk is stored, and the chunk and the document
\* of every result of a search are stored ones; the same holds of the
\* repository a run of process_job would leave if it stopped after
\* upsert_document or after upsert_chunks.
C27_ReferencesResolve ==
    /\ [](/\ Resolves(Repo)
          /\ Searched =>
                \A k \in 1..Len(ret.results) :
                    /\ \E c \in ChunkSet : c.id = ret.results[k].id
                    /\ ret.results[k].document_id \in DOMAIN documents)
    /\ [][ret'.op = "process_job" =>
            /\ Resolves(upsert_document(Repo,
                    Document(DocId(ret'.call_id), "fathom", ret'.call_id,
                             project_resolver(ret'.tags)),
                    acl_resolver(ret'.emails)))
            /\ Resolves(StoreDocAndChunks(Repo, ret'.call_id, ret'.texts, ret'.emails,
                                          ret'.tags))]_vars

\* A run of process_job that raised at the embeddings has left a document
\* and two chunks of which none has an embedding, beside another document
\* whose chunks have theirs.
C27_Witness ==
    /\ ret.op = "process_job"
    /\ ret.status = "raised"
    /\ Len(ret.job_chunks) >= 2
    /\ \A k \in 1..Len(ret.job_chunks) :
          /\ ret.job_chunks[k] \in ChunkSet
          /\ EmbId(ret.job_chunks[k].id) \notin DOMAIN embeddings
    /\ \E c \in ChunkSet :
          c.document_id # DocId(ret.call_id) /\ EmbId(c.id) \in DOMAIN embeddings

----------------------------------------------------------------------------
\* First in, first out (queue.py), under SpecQueue

\* C30: the items dequeue has returned, followed by the items in the queue,
\* are the items enqueued, in the order of their enqueueing; len(queue) is
\* the number of enqueues less the number of items returned; a dequeue on an
\* empty queue returns None and leaves it empty, and a dequeue on any other
\* queue returns the oldest item not yet returned.
C30_FirstInFirstOut ==
    /\ [](/\ dequeued \o queue = enqueued
          /\ QueueLen(queue) = Len(enqueued) - Len(dequeued)
          /\ ret.op \in {"enqueue", "dequeue"} => ret.depth = Len(enqueued) - Len(dequeued))
    /\ [][ret'.op = "dequeue" =>
            IF queue = <<>>
            THEN ret'.item = None /\ queue' = <<>> /\ dequeued' = dequeued
            ELSE /\ ret'.item = Some(enqueued[Len(dequeued) + 1])
                 /\ dequeued' = Append(dequeued, enqueued[Len(dequeued) + 1])]_vars

\* Two different items have come out in the order they went in while a third
\* was waiting, and the last call was a dequeue.
C30_Witness ==
    /\ ret.op = "dequeue"
    /\ Len(dequeued) = 2
    /\ dequeued[1] # dequeued[2]
    /\ Len(queue) = 1
----------------------------------------------------------------------------
\* The Fathom webhook (main.py, security.py), under SpecWebhook

\* The signature a request carried: "" when the header is missing.
SignatureOf(header) == IF IsNone(header) THEN <<>> ELSE Val(header)

\* C28 as stated: a request whose X-Fathom-Signature is not the HMAC-SHA256
\* of its body under the configured secret is answered 401, and the queue, the
\* scheduled ingests and the repository stay as they were; a request with that
\* signature and a valid payload is answered 200, puts exactly one job on the
\* queue and schedules exactly one ingest, of that job.
C28_BadSignatureRejectedWith401 ==
    [][ret'.op = "fathom_webhook" =>
          /\ SignatureOf(ret'.signature) # hmac_hexdigest(FathomSecret, ret'.body) =>
                /\ ret'.code = 401
                /\ UNCHANGED <<queue, tasks, repoVars>>
          /\ (/\ SignatureOf(ret'.signature) = hmac_hexdigest(FathomSecret, ret'.body)
              /\ ~LoadsRaises(ret'.body)
              /\ ~ValidateRaises(ret'.body)) =>
                /\ ret'.code = 200
                /\ \E job \in {JobOf(PayloadOf(ret'.body))} :
                      /\ queue' = Append(queue, job)
                      /\ tasks' = Append(tasks, job)
                /\ UNCHANGED repoVars]_vars

\* C29 as stated: when no ingest is pending, every job the webhook enqueued
\* has left the queue, and /health reports queue_depth 0.
C29_QueueEmptyWhenNoIngestPending ==
    Len(tasks) = 0 =>
        /\ QueueLen(queue) = 0
        /\ ret.op = "health" => ret.depth = 0
====
